---- MODULE Spec2Model ----
(***************************************************************************)
(* KleverDesktop: the self-exploration task loop                           *)
(* (appagent/scripts/self_explorer.py) and the reply parsers it and the    *)
(* model connectors use (appagent/scripts/model.py,                        *)
(* core/model_connectors/*.py); the task loop of the GELab models          *)
(* (core/model_connectors/gelab_task_runner.py); the engine wrappers       *)
(* (engines/appagent/wrapper.py, engines/gelab/main.py) and the            *)
(* self_explorer.py process with its signal handling.                      *)
(*                                                                         *)
(* Strings the parsers take apart are sequences of symbols: a symbol is a  *)
(* character, or the atom "FINISH" standing for those six characters.      *)
(* Free text (observation, thought, summary, documentation) is a TLA+      *)
(* string; only its emptiness matters to the code.                         *)
(***************************************************************************)
EXTENDS Integers, Sequences, FiniteSets, TLC

\* ------------------------------------------------------------------------
\* Bounds of the model
\* ------------------------------------------------------------------------
MAX_ROUNDS == 2

\* ------------------------------------------------------------------------
\* Python helpers used by the parsers
\* ------------------------------------------------------------------------
Digits == {"0", "1", "2", "3", "4", "5", "6", "7", "8", "9"}

Quotes == {"\"", "'"}

\* int(s) succeeds: optional sign followed by at least one digit
IsInt(s) ==
  /\ Len(s) >= 1
  /\ LET body == IF s[1] = "-" THEN Tail(s) ELSE s
     IN  /\ Len(body) >= 1
         /\ \A i \in 1..Len(body) : body[i] \in Digits

DigitVal(d) == CHOOSE n \in 0..9 : ToString(n) = d

RECURSIVE NatVal(_)
NatVal(s) == IF Len(s) = 0 THEN 0
             ELSE 10 * NatVal(SubSeq(s, 1, Len(s) - 1)) + DigitVal(s[Len(s)])

\* int(s) for a string IsInt accepts
IntVal(s) == IF s[1] = "-" THEN 0 - NatVal(Tail(s)) ELSE NatVal(s)

\* re "\d+" matches the whole of s
IsDigits(s) == Len(s) >= 1 /\ \A i \in 1..Len(s) : s[i] \in Digits

\* s[1:-1]
Chop(s) == SubSeq(s, 2, Len(s) - 1)

\* s.strip('"\'')
RECURSIVE StripQuotes(_)
StripQuotes(s) ==
  IF Len(s) = 0 THEN s
  ELSE IF s[1] \in Quotes THEN StripQuotes(Tail(s))
  ELSE IF s[Len(s)] \in Quotes THEN StripQuotes(SubSeq(s, 1, Len(s) - 1))
  ELSE s

\* "FINISH" in s
HasFinish(s) == \E i \in 1..Len(s) : s[i] = "FINISH"

\* ------------------------------------------------------------------------
\* Action strings: name(arg, arg, ...)
\* ------------------------------------------------------------------------
\* An action string is [fn, paren, args]: the text before the first "(",
\* whether a parenthesised argument list follows, and the arguments.
\* an argument as written: its text v inside the quote q ("" when unquoted)
ArgRaw(arg) == IF arg.q = "" THEN arg.v ELSE <<arg.q>> \o arg.v \o <<arg.q>>

\* the pieces of the parenthesised text split at the commas, each stripped
ActParts(a) == IF Len(a.args) = 0 THEN << <<>> >>
               ELSE [i \in 1..Len(a.args) |-> ArgRaw(a.args[i])]

RECURSIVE JoinParts(_)
JoinParts(ps) == IF Len(ps) = 0 THEN <<>>
                 ELSE IF Len(ps) = 1 THEN ps[1]
                 ELSE ps[1] \o <<",">> \o JoinParts(Tail(ps))

\* re.findall(r"name\((.*?)\)", act)[0]: the text between the parentheses
ActContent(a) == JoinParts(ActParts(a))

\* "FINISH" in act
ActHasFinish(a) == a.fn = "FINISH" \/ \E i \in 1..Len(a.args) : HasFinish(a.args[i].v)

\* act.split("(")[0].strip()
ActName(a) == a.fn

\* the empty string
EmptyAct == [fn |-> "", paren |-> FALSE, args |-> <<>>]

\* ------------------------------------------------------------------------
\* appagent/scripts/model.py: parsing of the explore reply
\* ------------------------------------------------------------------------
\* a parsed action; unused parts are 0 / <<>>
PAct(name, area, str, dir, dist) ==
  [name |-> name, area |-> area, str |-> str, dir |-> dir, dist |-> dist]

\* an exception leaving the function
PRaise(exc) == PAct("RAISE", 0, <<exc>>, <<>>, <<>>)

\* int(re.findall(r"tap\((.*?)\)", act)[0]) and its long_press twin
ParseArea(a, name) ==
  IF ~a.paren THEN PRaise("IndexError")
  ELSE IF ~IsInt(ActContent(a)) THEN PRaise("ValueError")
  ELSE PAct(name, IntVal(ActContent(a)), <<>>, <<>>, <<>>)

\* text(...) in _parse_action_string: surrounding quotes removed if present
ParseTextArg(a) ==
  IF ~a.paren THEN PRaise("IndexError")
  ELSE LET c == ActContent(a)
       IN  IF Len(c) >= 1 /\ c[1] = "\"" /\ c[Len(c)] = "\""
             THEN PAct("text", 0, Chop(c), <<>>, <<>>)
           ELSE IF Len(c) >= 1 /\ c[1] = "'" /\ c[Len(c)] = "'"
             THEN PAct("text", 0, Chop(c), <<>>, <<>>)
           ELSE PAct("text", 0, c, <<>>, <<>>)

\* swipe(...) in _parse_action_string
ParseSwipeArgs(a) ==
  IF ~a.paren THEN PRaise("IndexError")
  ELSE LET ps == ActParts(a)
       IN  IF Len(ps) # 3 THEN PRaise("ValueError")
           ELSE IF ~IsInt(ps[1]) THEN PRaise("ValueError")
           ELSE PAct("swipe", IntVal(ps[1]), <<>>,
                     StripQuotes(ps[2]), StripQuotes(ps[3]))

_parse_action_string(a) ==
  IF ActHasFinish(a) THEN PAct("FINISH", 0, <<>>, <<>>, <<>>)
  ELSE IF ActName(a) = "tap" THEN ParseArea(a, "tap")
  ELSE IF ActName(a) = "text" THEN ParseTextArg(a)
  ELSE IF ActName(a) = "long_press" THEN ParseArea(a, "long_press")
  ELSE IF ActName(a) = "swipe" THEN ParseSwipeArgs(a)
  ELSE IF ActName(a) = "grid" THEN PAct("grid", 0, <<>>, <<>>, <<>>)
  ELSE PAct("ERROR", 0, <<>>, <<>>, <<>>)

\* ------------------------------------------------------------------------
\* Raw replies of the model
\* ------------------------------------------------------------------------
\* A reply is [fmt, Observation, Thought, Action, Summary, Decision,
\* Documentation, short].  fmt is what json.loads and the regexes see:
\*   "json"     the whole reply is a JSON object with these keys
\*   "embedded" a JSON object with text around it (a fenced block, a preamble)
\*   "scalar"   valid JSON that is no object (a number, a list, null)
\*   "text"     "Key: value" lines
\* A field is absent, a string, or (in JSON only) a value that is no string.
\* short: the stripped reply has fewer than 10 characters.
Absent == [k |-> "absent", s |-> ""]

Str(s) == [k |-> "str", s |-> s]

Num == [k |-> "num", s |-> ""]

NoAction == [k |-> "absent", a |-> EmptyAct]

ActionStr(a) == [k |-> "str", a |-> a]

NumAction == [k |-> "num", a |-> EmptyAct]

SUMMARY_PLACEHOLDER == "No summary available"

\* data.get("Key") or data.get("key", default)
JsonGet(f, default) == IF f.k = "absent" \/ (f.k = "str" /\ f.s = "") THEN Str(default) ELSE f

\* data.get("Action") or data.get("action", "")
JsonGetAction(f) == IF f.k = "absent" \/ (f.k = "str" /\ f.a = EmptyAct) THEN ActionStr(EmptyAct) ELSE f

\* what parse_explore_rsp / parse_grid_rsp return; unused parts are 0, <<>>, ""
ERes(act_name, area, str, dir, dist, last_act, observation, think, act) ==
  [act_name |-> act_name, area |-> area, input_str |-> str, swipe_dir |-> dir,
   dist |-> dist, last_act |-> last_act, observation |-> observation,
   think |-> think, act |-> act]

EError == ERes("ERROR", 0, <<>>, <<>>, <<>>, "", "", "", EmptyAct)

ERaise(exc) == ERes("RAISE", 0, <<exc>>, <<>>, <<>>, "", "", "", EmptyAct)

\* the try block of parse_explore_rsp: only json.JSONDecodeError is caught
ExploreJson(rsp) ==
  LET observation == JsonGet(rsp.Observation, "")
      think       == JsonGet(rsp.Thought, "")
      act         == JsonGetAction(rsp.Action)
      last_act    == JsonGet(rsp.Summary, SUMMARY_PLACEHOLDER)
      r           == _parse_action_string(act.a)
  IN  \* print_with_color concatenates each value to a colour code
      IF "num" \in {observation.k, think.k, act.k, last_act.k} THEN ERaise("TypeError")
      ELSE IF r.name = "RAISE" THEN ERaise(r.str[1])
      ELSE IF r.name = "ERROR" THEN EError
      ELSE IF r.name \in {"FINISH", "grid"}
        THEN ERes(r.name, 0, <<>>, <<>>, <<>>, last_act.s, observation.s, think.s, act.a)
      ELSE ERes(r.name, r.area, r.str, r.dir, r.dist, last_act.s, observation.s, think.s, act.a)

\* the action part of the regex fallback of parse_explore_rsp
ExploreTextAction(a) ==
  IF ActHasFinish(a) THEN PAct("FINISH", 0, <<>>, <<>>, <<>>)
  ELSE IF ActName(a) \in {"tap", "long_press"} THEN ParseArea(a, ActName(a))
  ELSE IF ActName(a) = "text"
    THEN IF ~a.paren THEN PRaise("IndexError")
         ELSE PAct("text", 0, Chop(ActContent(a)), <<>>, <<>>)
  ELSE IF ActName(a) = "swipe"
    THEN IF ~a.paren THEN PRaise("IndexError")
         ELSE LET ps == ActParts(a)
              IN  IF Len(ps) # 3 \/ ~IsInt(ps[1]) THEN PRaise("ValueError")
                  ELSE PAct("swipe", IntVal(ps[1]), <<>>, Chop(ps[2]), Chop(ps[3]))
  ELSE IF ActName(a) = "grid" THEN PAct("grid", 0, <<>>, <<>>, <<>>)
  ELSE PAct("ERROR", 0, <<>>, <<>>, <<>>)

\* the regex fallback of parse_explore_rsp: every exception becomes ["ERROR"]
ExploreText(rsp) ==
  IF rsp.fmt # "text" THEN EError
  ELSE IF rsp.Observation.k = "absent" \/ rsp.Thought.k = "absent"
          \/ rsp.Action.k = "absent" THEN EError
  ELSE LET last_act == IF rsp.Summary.k = "absent" THEN SUMMARY_PLACEHOLDER
                       ELSE rsp.Summary.s
           r == ExploreTextAction(rsp.Action.a)
       IN  IF r.name \in {"RAISE", "ERROR"} THEN EError
           ELSE ERes(r.name, r.area, r.str, r.dir, r.dist, last_act,
                     rsp.Observation.s, rsp.Thought.s, rsp.Action.a)

parse_explore_rsp(rsp) ==
  IF rsp.fmt = "scalar" THEN ERaise("AttributeError")
  ELSE IF rsp.fmt = "json" THEN ExploreJson(rsp)
  ELSE IF rsp.fmt = "text" THEN ExploreText(rsp)
  ELSE EError   \* no line of the reply starts a field: findall(...)[0] fails

\* ------------------------------------------------------------------------
\* appagent/scripts/model.py: parsing of the grid reply
\* ------------------------------------------------------------------------
\* a parsed grid action; unused parts are 0 / <<>>
GAct(name, area, subarea, end_area, end_subarea) ==
  [name |-> name, area |-> area, subarea |-> subarea,
   end_area |-> end_area, end_subarea |-> end_subarea]

GActRaise(exc) == GAct("RAISE", 0, <<exc>>, 0, <<>>)

\* how a sub-area loses its quotes: .strip('"\'') in the structured path,
\* [1:-1] in the fallback
Unquote(how, s) == IF how = "strip" THEN StripQuotes(s) ELSE Chop(s)

\* tap(area, subarea) and long_press(area, subarea)
GridArea(a, name, how) ==
  IF ~a.paren THEN GActRaise("IndexError")
  ELSE LET ps == ActParts(a)
       IN  IF ~IsInt(ps[1]) THEN GActRaise("ValueError")
           ELSE IF Len(ps) < 2 THEN GActRaise("IndexError")
           ELSE GAct(name, IntVal(ps[1]), Unquote(how, ps[2]), 0, <<>>)

\* swipe(start_area, start_subarea, end_area, end_subarea)
GridSwipe(a, how) ==
  IF ~a.paren THEN GActRaise("IndexError")
  ELSE LET ps == ActParts(a)
       IN  IF ~IsInt(ps[1]) THEN GActRaise("ValueError")
           ELSE IF Len(ps) < 2 THEN GActRaise("IndexError")
           ELSE IF Len(ps) < 3 THEN GActRaise("IndexError")
           ELSE IF ~IsInt(ps[3]) THEN GActRaise("ValueError")
           ELSE IF Len(ps) < 4 THEN GActRaise("IndexError")
           ELSE GAct("swipe_grid", IntVal(ps[1]), Unquote(how, ps[2]),
                     IntVal(ps[3]), Unquote(how, ps[4]))

GridActionWith(a, how) ==
  IF ActHasFinish(a) THEN GAct("FINISH", 0, <<>>, 0, <<>>)
  ELSE IF ActName(a) = "tap" THEN GridArea(a, "tap_grid", how)
  ELSE IF ActName(a) = "long_press" THEN GridArea(a, "long_press_grid", how)
  ELSE IF ActName(a) = "swipe" THEN GridSwipe(a, how)
  ELSE IF ActName(a) = "grid" THEN GAct("grid", 0, <<>>, 0, <<>>)
  ELSE GAct("ERROR", 0, <<>>, 0, <<>>)

_parse_grid_action_string(a) == GridActionWith(a, "strip")

\* what parse_grid_rsp returns
GRes(act_name, area, subarea, end_area, end_subarea, last_act, observation, think, act) ==
  [act_name |-> act_name, area |-> area, subarea |-> subarea,
   end_area |-> end_area, end_subarea |-> end_subarea, last_act |-> last_act,
   observation |-> observation, think |-> think, act |-> act]

GError == GRes("ERROR", 0, <<>>, 0, <<>>, "", "", "", EmptyAct)

GRaise(exc) == GRes("RAISE", 0, <<exc>>, 0, <<>>, "", "", "", EmptyAct)

\* the try block of parse_grid_rsp: only json.JSONDecodeError is caught
GridJson(rsp) ==
  LET observation == JsonGet(rsp.Observation, "")
      think       == JsonGet(rsp.Thought, "")
      act         == JsonGetAction(rsp.Action)
      last_act    == JsonGet(rsp.Summary, SUMMARY_PLACEHOLDER)
      r           == _parse_grid_action_string(act.a)
  IN  IF "num" \in {observation.k, think.k, act.k, last_act.k} THEN GRaise("TypeError")
      ELSE IF r.name = "RAISE" THEN GRaise(r.subarea[1])
      ELSE IF r.name = "ERROR" THEN GError
      ELSE GRes(r.name, r.area, r.subarea, r.end_area, r.end_subarea,
                last_act.s, observation.s, think.s, act.a)

\* the regex fallback of parse_grid_rsp: every exception becomes ["ERROR"]
GridText(rsp) ==
  IF rsp.fmt # "text" THEN GError
  ELSE IF rsp.Observation.k = "absent" \/ rsp.Thought.k = "absent"
          \/ rsp.Action.k = "absent" THEN GError
  ELSE LET last_act == IF rsp.Summary.k = "absent" THEN SUMMARY_PLACEHOLDER
                       ELSE rsp.Summary.s
           r == GridActionWith(rsp.Action.a, "slice")
       IN  IF r.name \in {"RAISE", "ERROR"} THEN GError
           ELSE GRes(r.name, r.area, r.subarea, r.end_area, r.end_subarea,
                     last_act, rsp.Observation.s, rsp.Thought.s, rsp.Action.a)

parse_grid_rsp(rsp) ==
  IF rsp.fmt = "scalar" THEN GRaise("AttributeError")
  ELSE IF rsp.fmt = "json" THEN GridJson(rsp)
  ELSE IF rsp.fmt = "text" THEN GridText(rsp)
  ELSE GError   \* no line of the reply starts a field: findall(...)[0] fails

\* ------------------------------------------------------------------------
\* appagent/scripts/model.py: parsing of the reflection reply
\* ------------------------------------------------------------------------
DOC_PLACEHOLDER == "No documentation available"

Decisions == {"BACK", "CONTINUE", "SUCCESS"}

\* what parse_reflect_rsp returns; hasdoc is FALSE where the code puts None
RRes(decision, think, hasdoc, doc) ==
  [decision |-> decision, think |-> think, hasdoc |-> hasdoc, doc |-> doc]

RError == RRes("ERROR", "", FALSE, "")

RRaise(exc) == RRes("RAISE", exc, FALSE, "")

\* the try block of parse_reflect_rsp: only json.JSONDecodeError is caught
ReflectJson(rsp) ==
  LET decision == JsonGet(rsp.Decision, "")
      think    == JsonGet(rsp.Thought, "")
      doc      == rsp.Documentation
  IN  IF "num" \in {decision.k, think.k} THEN RRaise("TypeError")
      ELSE IF decision.s = "INEFFECTIVE" THEN RRes("INEFFECTIVE", think.s, FALSE, "")
      ELSE IF decision.s \in Decisions
        THEN IF doc.k = "absent" \/ (doc.k = "str" /\ doc.s = "")
               THEN RRes(decision.s, think.s, TRUE, DOC_PLACEHOLDER)
             ELSE IF doc.k = "num" THEN RRaise("TypeError")
             ELSE RRes(decision.s, think.s, TRUE, doc.s)
      ELSE RError

\* the regex fallback of parse_reflect_rsp
ReflectText(rsp) ==
  IF rsp.fmt # "text" THEN RError
  ELSE IF rsp.Decision.k = "absent" THEN RError
  ELSE IF rsp.Thought.k = "absent" THEN RError
  ELSE IF rsp.Decision.s = "INEFFECTIVE"
    THEN RRes("INEFFECTIVE", rsp.Thought.s, FALSE, "")
  ELSE IF rsp.Decision.s \in Decisions
    THEN IF rsp.Documentation.k = "absent"
           THEN RRes(rsp.Decision.s, rsp.Thought.s, TRUE, DOC_PLACEHOLDER)
         ELSE RRes(rsp.Decision.s, rsp.Thought.s, TRUE, rsp.Documentation.s)
  ELSE RError

parse_reflect_rsp(rsp) ==
  IF rsp.short THEN RError
  ELSE IF rsp.fmt = "scalar" THEN RRaise("AttributeError")
  ELSE IF rsp.fmt = "json" THEN ReflectJson(rsp)
  ELSE IF rsp.fmt = "text" THEN ReflectText(rsp)
  ELSE RError   \* no line of the reply starts a field: findall(...)[0] fails

\* ------------------------------------------------------------------------
\* core/model_connectors: parse_response of the three connectors
\* ------------------------------------------------------------------------
CONNECTOR_PLACEHOLDER == "No summary"

\* the dict a connector returns: mode says what target holds ("label": one
\* element number, "coords": a point, "none": no target)
CRes(action_type, mode, target, end_point, value, direction, distance) ==
  [action_type |-> action_type, mode |-> mode, target |-> target,
   end_point |-> end_point, value |-> value, direction |-> direction,
   distance |-> distance]

CErr == CRes("ERROR", "none", <<>>, <<>>, <<>>, <<>>, <<>>)

CRaise(exc) == CRes("RAISE", "none", <<>>, <<>>, <<exc>>, <<>>, <<>>)

\* a connector result with the reasoning fields of the reply
CFull(c, observation, thought, summary) ==
  [action |-> c, observation |-> observation, thought |-> thought, summary |-> summary]

\* _extract_json finds a JSON object in the reply
HasJsonObject(rsp) == rsp.fmt \in {"json", "embedded"}

\* re.findall(r'text\(["\'](.+?)["\']\)', action)[0]; the pattern is case-sensitive
QuotedText(a) ==
  IF a.fn = "text" /\ a.paren /\ Len(a.args) = 1 /\ a.args[1].q # "" /\ Len(a.args[1].v) >= 1
    THEN CRes("text", "none", <<>>, <<>>, a.args[1].v, <<>>, <<>>)
  ELSE CErr

\* int(re.findall(r"tap\((\d+)\)", action)[0]) and its long_press twin
LabelTarget(a, name) ==
  IF a.fn = name /\ a.paren /\ IsDigits(ActContent(a))
    THEN CRes(name, "label", <<NatVal(ActContent(a))>>, <<>>, <<>>, <<>>, <<>>)
  ELSE CErr

\* swipe(element, direction, dist) of the label connectors
LabelSwipe(a) ==
  LET ps == ActParts(a)
  IN  IF a.fn # "swipe" \/ ~a.paren \/ Len(ActContent(a)) = 0 THEN CErr
      ELSE IF ~IsInt(StripQuotes(ps[1])) THEN CErr
      ELSE IF Len(ps) < 3 THEN CErr
      ELSE CRes("swipe", "label", <<IntVal(StripQuotes(ps[1]))>>, <<>>, <<>>,
                StripQuotes(ps[2]), StripQuotes(ps[3]))

\* str.upper() / str.lower() on the name of an action
Lower(fn) == IF fn \in {"TAP", "Tap"} THEN "tap"
             ELSE IF fn \in {"FINISH", "Finish"} THEN "finish"
             ELSE fn

\* "FINISH" in action.upper()
ActHasFinishAnyCase(a) ==
  \/ Lower(a.fn) = "finish"
  \/ \E i \in 1..Len(a.args) : HasFinish(a.args[i].v)

\* DefaultConnector._parse_action_string
DefaultAction(a) ==
  IF ActHasFinish(a) THEN CRes("FINISH", "none", <<>>, <<>>, <<>>, <<>>, <<>>)
  ELSE IF ActName(a) = "tap" THEN LabelTarget(a, "tap")
  ELSE IF ActName(a) = "text" THEN QuotedText(a)
  ELSE IF ActName(a) = "long_press" THEN LabelTarget(a, "long_press")
  ELSE IF ActName(a) = "swipe" THEN LabelSwipe(a)
  ELSE IF ActName(a) = "grid" THEN CRes("grid", "none", <<>>, <<>>, <<>>, <<>>, <<>>)
  ELSE CErr

\* GELabConnector._parse_label_action
GelabLabelAction(a) ==
  IF ActHasFinishAnyCase(a) THEN CRes("FINISH", "none", <<>>, <<>>, <<>>, <<>>, <<>>)
  ELSE IF Lower(ActName(a)) = "tap" THEN LabelTarget(a, "tap")
  ELSE IF Lower(ActName(a)) = "text" THEN QuotedText(a)
  ELSE IF Lower(ActName(a)) = "long_press" THEN LabelTarget(a, "long_press")
  ELSE IF Lower(ActName(a)) = "swipe" THEN LabelSwipe(a)
  ELSE CErr

\* ClaudeConnector._extract_coords: the arguments that read as numbers
RECURSIVE CoordsOf(_)
CoordsOf(args) ==
  IF Len(args) = 0 THEN <<>>
  ELSE IF Head(args).q = "" /\ IsInt(Head(args).v)
    THEN <<IntVal(Head(args).v)>> \o CoordsOf(Tail(args))
  ELSE CoordsOf(Tail(args))

CLAUDE_DEFAULT_Y == 1496

\* ClaudeConnector._parse_coordinate_action
ClaudeAction(a) ==
  LET coords == IF a.paren THEN CoordsOf(a.args) ELSE <<>>
  IN  IF ActHasFinishAnyCase(a) THEN CRes("FINISH", "none", <<>>, <<>>, <<>>, <<>>, <<>>)
      ELSE IF Lower(ActName(a)) = "tap"
        THEN IF Len(coords) = 0 THEN CErr
             ELSE IF Len(coords) = 1
               THEN CRes("tap_coords", "coords", <<coords[1], CLAUDE_DEFAULT_Y>>, <<>>, <<>>, <<>>, <<>>)
             ELSE CRes("tap_coords", "coords", <<coords[1], coords[2]>>, <<>>, <<>>, <<>>, <<>>)
      ELSE IF Lower(ActName(a)) = "text" THEN QuotedText(a)
      ELSE IF Lower(ActName(a)) = "long_press"
        THEN IF Len(coords) < 2 THEN CErr
             ELSE CRes("long_press_coords", "coords", <<coords[1], coords[2]>>, <<>>, <<>>, <<>>, <<>>)
      ELSE IF Lower(ActName(a)) = "swipe"
        THEN IF Len(coords) >= 4
               THEN CRes("swipe_coords", "coords", <<coords[1], coords[2]>>,
                         <<coords[3], coords[4]>>, <<>>, <<>>, <<>>)
             ELSE CErr
      ELSE CErr

\* the action_format property of a connector
action_format(conn) == IF conn = "claude" THEN "coords" ELSE "label"

\* the action parser of a connector
ConnectorAction(conn, a) ==
  IF conn = "default" THEN DefaultAction(a)
  ELSE IF conn = "gelab" THEN GelabLabelAction(a)
  ELSE ClaudeAction(a)

\* _json_to_standard of connector conn: the
\* action parser meets a value that is no string outside every try block
\* ("FINISH" in 5 is a TypeError, (5).strip() an AttributeError)
JsonToStandard(rsp, conn) ==
  LET action == JsonGetAction(rsp.Action)
  IN  IF action.k = "num" THEN CFull(CRaise(IF conn = "default" THEN "TypeError" ELSE "AttributeError"),
                                      Absent, Absent, Absent)
      ELSE CFull(ConnectorAction(conn, action.a), JsonGet(rsp.Observation, ""), JsonGet(rsp.Thought, ""),
                 JsonGet(rsp.Summary, CONNECTOR_PLACEHOLDER))

\* _regex_parse of connector conn
RegexParse(rsp, conn) ==
  IF rsp.fmt # "text" THEN CFull(CErr, Str(""), Str(""), Str(CONNECTOR_PLACEHOLDER))
  ELSE CFull(IF rsp.Action.k = "absent" THEN CErr ELSE ConnectorAction(conn, rsp.Action.a),
             IF rsp.Observation.k = "absent" THEN Str("") ELSE rsp.Observation,
             IF rsp.Thought.k = "absent" THEN Str("") ELSE rsp.Thought,
             IF rsp.Summary.k = "absent" THEN Str(CONNECTOR_PLACEHOLDER) ELSE rsp.Summary)

DefaultConnector_parse_response(rsp) ==
  IF HasJsonObject(rsp) THEN JsonToStandard(rsp, "default")
  ELSE RegexParse(rsp, "default")

\* what a pattern of ClaudeConnector._regex_parse captures when the field it
\* should stop at is missing: the field and every line after it
SPILLED == "<the field and the lines after it>"

\* ClaudeConnector._regex_parse: its patterns ignore case, so they also find
\* the action: and summary: fields of a tab-separated reply; they match
\* across lines, so Observation runs to "Thought:" and Thought to "Action:",
\* or to the end of the reply when that field is missing
ClaudeRegexParse(rsp) ==
  IF rsp.fmt = "legacy"
    THEN CFull(IF rsp.Action.k = "absent" THEN CErr ELSE ClaudeAction(rsp.Action.a),
               Str(""), Str(""),
               IF rsp.Summary.k = "absent" THEN Str(CONNECTOR_PLACEHOLDER) ELSE rsp.Summary)
  ELSE IF rsp.fmt # "text" THEN RegexParse(rsp, "claude")
  ELSE CFull(IF rsp.Action.k = "absent" THEN CErr ELSE ClaudeAction(rsp.Action.a),
             IF rsp.Observation.k = "absent" THEN Str("")
             ELSE IF rsp.Thought.k = "absent"
                     /\ (rsp.Action.k # "absent" \/ rsp.Summary.k # "absent"
                         \/ rsp.Documentation.k # "absent")
               THEN Str(SPILLED)
             ELSE rsp.Observation,
             IF rsp.Thought.k = "absent" THEN Str("")
             ELSE IF rsp.Action.k = "absent"
                     /\ (rsp.Summary.k # "absent" \/ rsp.Documentation.k # "absent")
               THEN Str(SPILLED)
             ELSE rsp.Thought,
             IF rsp.Summary.k = "absent" THEN Str(CONNECTOR_PLACEHOLDER) ELSE rsp.Summary)

ClaudeConnector_parse_response(rsp) ==
  IF HasJsonObject(rsp) THEN JsonToStandard(rsp, "claude")
  ELSE ClaudeRegexParse(rsp)

\* GELabConnector._legacy_to_standard: the action keyword of the tab-separated
\* format; a reply without point: fields gets the default point [0, 0]
LegacyAction(a) ==
  IF a.fn = "CLICK" THEN CRes("tap_coords", "coords", <<0, 0>>, <<>>, <<>>, <<>>, <<>>)
  ELSE IF a.fn = "TYPE" THEN CRes("text", "coords", <<0, 0>>, <<>>, <<>>, <<>>, <<>>)
  ELSE IF a.fn = "SLIDE" THEN CRes("swipe_coords", "coords", <<0, 0>>, <<0, 0>>, <<>>, <<>>, <<>>)
  ELSE IF a.fn = "LONGPRESS" THEN CRes("long_press_coords", "coords", <<0, 0>>, <<>>, <<>>, <<>>, <<>>)
  ELSE IF a.fn = "COMPLETE" THEN CRes("FINISH", "none", <<>>, <<>>, <<>>, <<>>, <<>>)
  ELSE IF a.fn = "ABORT" THEN CRes("FINISH", "none", <<>>, <<>>, <<"Task aborted">>, <<>>, <<>>)
  ELSE IF a.fn = "WAIT" THEN CRes("wait", "none", <<>>, <<>>, <<"1">>, <<>>, <<>>)
  ELSE IF a.fn = "AWAKE" THEN CRes("launch_app", "none", <<>>, <<>>, <<>>, <<>>, <<>>)
  ELSE IF a.fn = "INFO" THEN CRes("ask_user", "none", <<>>, <<>>, <<>>, <<>>, <<>>)
  ELSE CErr

\* GELabConnector._parse_legacy_format: only a reply in the tab-separated
\* format has action:, explain: and summary: fields
GelabLegacy(rsp) ==
  IF rsp.fmt # "legacy"
    THEN CFull(CErr, Str(""), Str(""), Str(SUMMARY_PLACEHOLDER))
  ELSE CFull(IF rsp.Action.k = "absent" THEN CErr ELSE LegacyAction(rsp.Action.a),
             IF rsp.Observation.k = "absent" THEN Str("") ELSE rsp.Observation,
             IF rsp.Thought.k = "absent" THEN Str("") ELSE rsp.Thought,
             IF rsp.Summary.k = "absent" THEN Str(SUMMARY_PLACEHOLDER) ELSE rsp.Summary)

GELabConnector_parse_response(rsp) ==
  IF HasJsonObject(rsp) THEN JsonToStandard(rsp, "gelab")
  ELSE GelabLegacy(rsp)

\* ------------------------------------------------------------------------
\* Perception: the interactive elements of one screen
\* ------------------------------------------------------------------------
MIN_DIST == 30

\* A node of the accessibility tree / DOM: [uid, bbox, clickable, focusable]
\* with bbox = <<<<x1, y1>>, <<x2, y2>>>>.
Node(uid, x1, y1, x2, y2, c, f) ==
  [uid |-> uid, bbox |-> << <<x1, y1>>, <<x2, y2>> >>, clickable |-> c, focusable |-> f]

N1 == Node("e1", 0, 0, 40, 40, TRUE, TRUE)

N2 == Node("e2", 100, 0, 140, 40, TRUE, FALSE)

\* focusable only, its centre exactly MIN_DIST from the centre of N1
N3 == Node("e3", 0, 20, 40, 80, FALSE, TRUE)

Nodes == {N1, N2, N3}

UIDs == { n.uid : n \in Nodes }

\* the screens the device can show, as node lists in document order
Screens == { <<>>, <<N1, N2>>, <<N1, N3>> }

Elem(n) == [uid |-> n.uid, bbox |-> n.bbox]

Center(bbox) == << (bbox[1][1] + bbox[2][1]) \div 2, (bbox[1][2] + bbox[2][2]) \div 2 >>

Abs(x) == IF x < 0 THEN 0 - x ELSE x

\* the square of the distance the code compares with MIN_DIST
Dist2(c, d) == Abs(c[1] - d[1]) * Abs(c[1] - d[1]) + Abs(c[2] - d[2]) * Abs(c[2] - d[2])

HasAttrib(n, attrib) == IF attrib = "clickable" THEN n.clickable ELSE n.focusable

\* traverse_tree: nodes with the attribute, in document order, skipping a
\* node whose centre is within MIN_DIST of one already kept
RECURSIVE TraverseFrom(_, _, _)
TraverseFrom(nodes, attrib, kept) ==
  IF Len(nodes) = 0 THEN kept
  ELSE LET n == Head(nodes)
           close == \E i \in 1..Len(kept) :
                       Dist2(Center(n.bbox), Center(kept[i].bbox)) <= MIN_DIST * MIN_DIST
       IN  IF HasAttrib(n, attrib) /\ ~close
             THEN TraverseFrom(Tail(nodes), attrib, Append(kept, Elem(n)))
           ELSE TraverseFrom(Tail(nodes), attrib, kept)

traverse_tree(nodes, attrib) == TraverseFrom(nodes, attrib, <<>>)

\* extract_interactive_elements: every node the selectors find, skipping one
\* whose centre is closer than MIN_DIST to a position already seen
RECURSIVE ExtractFrom(_, _)
ExtractFrom(nodes, kept) ==
  IF Len(nodes) = 0 THEN kept
  ELSE LET n == Head(nodes)
           too_close == \E i \in 1..Len(kept) :
                       Dist2(Center(n.bbox), Center(kept[i].bbox)) < MIN_DIST * MIN_DIST
       IN  IF ~too_close THEN ExtractFrom(Tail(nodes), Append(kept, Elem(n)))
           ELSE ExtractFrom(Tail(nodes), kept)

extract_interactive_elements(nodes) == ExtractFrom(nodes, <<>>)

\* an element list built without looking at useless_list
NeverUseless(uid, useless) == FALSE

\* elem.uid in useless_list
IsUseless(uid, useless) == uid \in useless

RECURSIVE KeepClickable(_, _)
KeepClickable(clickable, useless) ==
  IF Len(clickable) = 0 THEN <<>>
  ELSE IF IsUseless(Head(clickable).uid, useless)
    THEN KeepClickable(Tail(clickable), useless)
  ELSE <<Head(clickable)>> \o KeepClickable(Tail(clickable), useless)

RECURSIVE KeepFocusable(_, _, _)
KeepFocusable(focusable, clickable, useless) ==
  IF Len(focusable) = 0 THEN <<>>
  ELSE LET e == Head(focusable)
           close == \E i \in 1..Len(clickable) :
                       Dist2(Center(e.bbox), Center(clickable[i].bbox)) <= MIN_DIST * MIN_DIST
           rest == KeepFocusable(Tail(focusable), clickable, useless)
       IN  IF IsUseless(e.uid, useless) \/ close THEN rest ELSE <<e>> \o rest

\* the element list of a round: its positions are the labels drawn
BuildElemList(clickable, focusable, useless) ==
  KeepClickable(clickable, useless) \o KeepFocusable(focusable, clickable, useless)

\* seq[i] in Python: negative indices count from the end
PyIndexOk(seq, i) == 0 - Len(seq) <= i /\ i <= Len(seq) - 1

PyIndex(seq, i) == IF i >= 0 THEN seq[i + 1] ELSE seq[Len(seq) + i + 1]

\* ------------------------------------------------------------------------
\* Replies the model gateway can hand to the loop
\* ------------------------------------------------------------------------
Arg(q, v) == [q |-> q, v |-> v]

Call(fn, args) == [fn |-> fn, paren |-> TRUE, args |-> args]

Bare(fn) == [fn |-> fn, paren |-> FALSE, args |-> <<>>]

UP == <<"u", "p">>

LEFT == <<"l", "e", "f", "t">>

DIAG == <<"d", "i", "a", "g">>

MEDIUM == <<"m", "e", "d", "i", "u", "m">>

CENTER == <<"c", "e", "n", "t", "e", "r">>

DQ == "\""

Rsp(fmt, o, t, a, sm, d, doc, short) ==
  [fmt |-> fmt, Observation |-> o, Thought |-> t, Action |-> a, Summary |-> sm,
   Decision |-> d, Documentation |-> doc, short |-> short]

\* action strings of the explore prompt
ExploreActs ==
  { Call("tap", <<Arg("", <<"1">>)>>),
    Call("tap", <<Arg("", <<"2">>)>>),
    Call("tap", <<Arg("", <<"0">>)>>),
    Call("tap", <<Arg("", <<"9">>)>>),
    Call("tap", <<Arg("", <<"a", "b">>)>>),
    Call("text", <<Arg(DQ, <<"h", "i">>)>>),
    Call("text", <<Arg(DQ, <<"FINISH">>)>>),
    Call("long_press", <<Arg("", <<"1">>)>>),
    Call("swipe", <<Arg("", <<"1">>), Arg(DQ, UP), Arg(DQ, MEDIUM)>>),
    Call("swipe", <<Arg("", <<"1">>), Arg(DQ, DIAG), Arg(DQ, MEDIUM)>>),
    Call("grid", <<>>),
    Bare("FINISH"),
    Call("frobnicate", <<Arg("", <<"1">>)>>) }

ExploreReplies ==
  { Rsp(f, Str("o"), Str("t"), ActionStr(a), Str("s1"), Absent, Absent, FALSE) :
      f \in {"json", "text"}, a \in ExploreActs }
  \cup { Rsp("json", Str("o"), Str("t"), ActionStr(Call("tap", <<Arg("", <<"1">>)>>)),
             Absent, Absent, Absent, FALSE),
         Rsp("scalar", Absent, Absent, NoAction, Absent, Absent, Absent, TRUE),
         Rsp("json", Str("o"), Str("t"), NumAction, Str("s1"), Absent, Absent, FALSE),
         Rsp("text", Str("o"), Str("t"), NoAction, Str("s1"), Absent, Absent, FALSE) }

\* action strings of the grid prompt
GridActs ==
  { Call("tap", <<Arg("", <<"1">>), Arg(DQ, CENTER)>>),
    Call("long_press", <<Arg("", <<"2">>), Arg(DQ, CENTER)>>),
    Call("swipe", <<Arg("", <<"1">>), Arg(DQ, CENTER), Arg("", <<"2">>), Arg(DQ, CENTER)>>),
    Call("tap", <<Arg("", <<"1">>)>>),
    Call("grid", <<>>),
    Bare("FINISH"),
    Call("frobnicate", <<Arg("", <<"1">>)>>) }

GridReplies ==
  { Rsp(f, Str("o"), Str("t"), ActionStr(a), Str("s1"), Absent, Absent, FALSE) :
      f \in {"json", "text"}, a \in GridActs }

ReflectReplies ==
  { Rsp(f, Absent, Str("t"), NoAction, Absent, Str(d), doc, FALSE) :
      f \in {"json", "text"},
      d \in {"INEFFECTIVE", "BACK", "CONTINUE", "SUCCESS", "MAYBE"},
      doc \in {Absent, Str("d1")} }
  \cup { Rsp("text", Absent, Absent, NoAction, Absent, Absent, Absent, TRUE),
         Rsp("scalar", Absent, Absent, NoAction, Absent, Absent, Absent, FALSE) }

\* ------------------------------------------------------------------------
\* Documentation store: one file per element uid under auto_docs
\* ------------------------------------------------------------------------
DocKeys == {"tap", "text", "v_swipe", "h_swipe", "long_press"}

EmptyDoc == [k \in DocKeys |-> ""]

NoDocs == [u \in UIDs |-> [exists |-> FALSE, content |-> EmptyDoc]]

\* a store that never finds an existing entry
NeverDocumented(file, kind) == FALSE

\* os.path.exists(doc_path) and doc_content[act_name]
AlreadyDocumented(file, kind) == file.exists /\ file.content[kind] # ""

\* doc_content[act_name] = doc, written back to the file
WriteDoc(file, kind, doc) ==
  [exists |-> TRUE, content |-> [file.content EXCEPT ![kind] = doc]]

\* ------------------------------------------------------------------------
\* appagent/scripts/self_explorer.py: the task loop
\* ------------------------------------------------------------------------
VARIABLES
  platform,        \* "android" or "web"
  pc,              \* where the script is
  round_count, doc_count, useless_list, last_act, task_complete,
  clickable_list, focusable_list, elem_list,
  res,             \* what parse_explore_rsp returned
  grid_res,        \* what parse_grid_rsp returned
  act_name, area,
  tl_bound,        \* the names tl and br are bound
  docs,            \* the files under auto_docs
  decision, resource_id,
  doc,             \* the documentation text about to be recorded
  exit_code,
  fail,            \* why the loop was left early ("none" if it was not)
  round_ops,       \* model calls and device actions made in the current round
  logged,          \* what the current round appended to the report and the logs
  p_fn, p_rsp, p_out,  \* a function applied to an input on its own: name, input, result
  t_pc,            \* run_gelab_task: where it is
  t_round,         \* run_gelab_task: round_count
  t_summary,       \* run_gelab_task: last_summary
  t_result,        \* run_gelab_task: what run_gelab_round returned last
  t_return,        \* run_gelab_task: what it returned
  w_pc,            \* LegacyEngineWrapper: where execute_task is
  w_status,        \* LegacyEngineWrapper.status
  w_process,       \* LegacyEngineWrapper.process
  w_ret,           \* what execute_task returned
  s_pc,            \* self_explorer.py as a process: where it is
  s_flag,          \* _emulator_started_by_script
  s_serial,        \* _device_serial
  s_running,       \* the devices adb lists
  s_stopped,       \* the serials handed to stop_emulator
  s_signal,        \* whether a termination signal was delivered
  s_rounds,        \* rounds of the task loop the process has run
  s_exit,          \* its exit status
  e_pc,            \* GELabEngine: where execute_task is
  e_status,        \* GELabEngine.status
  e_shutdown,      \* _shutdown_requested
  e_steps,         \* rounds the rollout has started
  e_after,         \* rounds started after the shutdown request
  e_ret            \* what execute_task returned

loopvars == <<platform, pc, round_count, doc_count, useless_list, last_act,
              task_complete, clickable_list, focusable_list, elem_list, res,
              grid_res, act_name, area, tl_bound, docs, decision, resource_id,
              doc, exit_code, fail, round_ops, logged>>

parsevars == <<p_fn, p_rsp, p_out>>

taskvars == <<t_pc, t_round, t_summary, t_result, t_return>>

\* the state of the other programs of the repository
wrapvars == <<w_pc, w_status, w_process, w_ret>>

scriptvars == <<s_pc, s_flag, s_serial, s_running, s_stopped, s_signal, s_rounds, s_exit>>

enginevars == <<e_pc, e_status, e_shutdown, e_steps, e_after, e_ret>>

auxvars == <<taskvars, wrapvars, scriptvars, enginevars>>

vars == <<loopvars, parsevars, auxvars>>

DeviceRets == {"OK", "ERROR"}

\* what a call of a parser gave: the action or verdict it returned with the
\* fields and parameters that came with it, or the exception it let out
POutFull(name, exc, summary, observation, thought, documentation, params) ==
  [name |-> name, exc |-> exc, summary |-> summary, observation |-> observation,
   thought |-> thought, documentation |-> documentation, params |-> params]

POut(name, exc) == POutFull(name, exc, Absent, Absent, Absent, Absent, <<>>)

NoOut == POut("", "")

LoopInit ==
  /\ platform \in {"android", "web"}
  /\ pc = "loop"
  /\ round_count = 0
  /\ doc_count = 0
  /\ useless_list = {}
  /\ last_act = "None"
  /\ task_complete = FALSE
  /\ clickable_list = <<>>
  /\ focusable_list = <<>>
  /\ elem_list = <<>>
  /\ res = EError
  /\ grid_res = GError
  /\ act_name = ""
  /\ area = 0
  /\ tl_bound = FALSE
  /\ docs = NoDocs
  /\ decision = ""
  /\ resource_id = ""
  /\ doc = ""
  /\ exit_code = -1
  /\ fail = "none"
  /\ round_ops = {}
  /\ logged = {}

\* run_gelab_task has not been called
NoRound == [success |-> FALSE, action_type |-> "", summary |-> Absent, error |-> ""]

NoReturn == [success |-> FALSE, rounds |-> 0, error |-> ""]

TaskIdle ==
  /\ t_pc = "idle"
  /\ t_round = 0
  /\ t_summary = Str("")
  /\ t_result = NoRound
  /\ t_return = NoReturn

\* the other programs before they are started
\* LegacyEngineWrapper.__init__
WrapperIdle ==
  /\ w_pc = "idle"
  /\ w_status = "IDLE"
  /\ w_process = "none"
  /\ w_ret = NoReturn

\* self_explorer.py has not been started
ScriptIdle ==
  /\ s_pc = "notrun"
  /\ s_flag = FALSE
  /\ s_serial = "None"
  /\ s_running = {}
  /\ s_stopped = {}
  /\ s_signal = FALSE
  /\ s_rounds = 0
  /\ s_exit = -1

\* GELabEngine.__init__ and the module state of engines/gelab/main.py
EngineIdle ==
  /\ e_pc = "idle"
  /\ e_status = "IDLE"
  /\ e_shutdown = FALSE
  /\ e_steps = 0
  /\ e_after = 0
  /\ e_ret = NoReturn

AuxInit ==
  /\ TaskIdle
  /\ WrapperIdle
  /\ ScriptIdle
  /\ EngineIdle

Init ==
  /\ LoopInit
  /\ AuxInit
  /\ p_fn = ""
  /\ p_rsp = Rsp("text", Absent, Absent, NoAction, Absent, Absent, Absent, TRUE)
  /\ p_out = NoOut

\* an entry appended to a file: report_log_path is the Markdown report,
\* explore_log_path and reflect_log_path are the logs of the rounds
Entry(file, what) == <<file, what>>

\* the four append_to_log calls that write Observation, Thought, Action, Summary
Reasoning == { Entry("report", "reasoning") }

\* the loop condition one round too generous
LoopCondInclusive(rc) == rc <= MAX_ROUNDS

\* while round_count < configs["MAX_ROUNDS"]
LoopCond(rc) == rc < MAX_ROUNDS

\* a failure that goes on with the next round instead of leaving the loop
BreakAsContinue(reason) ==
  /\ pc' = "loop"
  /\ fail' = reason

\* break: the loop is left for the epilogue
Break(reason) ==
  /\ pc' = "epilogue"
  /\ fail' = reason

\* an exception nobody catches: traceback, exit status 1
Crash ==
  /\ pc' = "exited"
  /\ fail' = "exception"
  /\ exit_code' = 1

\* an epilogue that forgets task_complete
ExitCodeByRoundOnly(complete, rc) == IF rc = MAX_ROUNDS THEN 0 ELSE 1

\* the if/elif/else at the end of the script
ExitCode(complete, rc) ==
  IF complete THEN 0
  ELSE IF rc = MAX_ROUNDS THEN 0
  ELSE 1

\* the round's perception failed
PerceptionFailed(plat, shot, xml) ==
  IF plat = "android" THEN shot = "ERROR" \/ xml = "ERROR" ELSE shot = "ERROR"

\* A round starts: screenshot, element lists, labelled screenshot.
StartRound ==
  /\ pc = "loop"
  /\ LoopCond(round_count)
  /\ round_count' = round_count + 1
  /\ round_ops' = {}
  /\ \E shot \in DeviceRets, xml \in DeviceRets, screen \in Screens :
       IF PerceptionFailed(platform, shot, xml)
         THEN /\ Break("perception")
              /\ logged' = { Entry("report", "round") }
              /\ UNCHANGED <<clickable_list, focusable_list, elem_list>>
       ELSE LET cl == IF platform = "android" THEN traverse_tree(screen, "clickable")
                      ELSE extract_interactive_elements(screen)
                fl == IF platform = "android" THEN traverse_tree(screen, "focusable")
                      ELSE <<>>
            IN  /\ clickable_list' = cl
                /\ focusable_list' = fl
                /\ elem_list' = BuildElemList(cl, fl, useless_list)
                /\ logged' = { Entry("report", "round"), Entry("report", "screenshots") }
                /\ pc' = "explore"
                /\ fail' = fail
  \* names the round binds before it reads them: their old values are dead
  /\ res' = EError
  /\ grid_res' = GError
  /\ act_name' = ""
  /\ area' = 0
  /\ decision' = ""
  /\ resource_id' = ""
  /\ doc' = ""
  /\ UNCHANGED <<platform, doc_count, useless_list, last_act, task_complete,
                 tl_bound, docs, exit_code, parsevars, auxvars>>

\* The while condition is false.
LoopEnd ==
  /\ pc = "loop"
  /\ ~LoopCond(round_count)
  /\ pc' = "epilogue"
  /\ UNCHANGED <<platform, round_count, doc_count, useless_list, last_act,
                 task_complete, clickable_list, focusable_list, elem_list, res,
                 grid_res, act_name, area, tl_bound, docs, decision, resource_id, doc,
                 exit_code, fail, round_ops, logged, parsevars, auxvars>>

\* The explore prompt is sent, the reply parsed and its reasoning logged.
Explore ==
  /\ pc = "explore"
  /\ round_ops' = round_ops \cup {"explore"}
  /\ \E status \in BOOLEAN, rsp \in ExploreReplies :
       IF ~status
         THEN /\ Break("gateway")
              /\ UNCHANGED <<res, act_name, last_act, task_complete, exit_code, logged>>
       ELSE LET r == parse_explore_rsp(rsp)
            IN  /\ logged' = logged \cup
                     { Entry("report", "performance"), Entry("explore_log", "response") } \cup
                     (IF r.act_name = "RAISE" THEN {} ELSE Reasoning)
                /\ res' = IF r.act_name = "RAISE" THEN res ELSE r
                /\ act_name' = IF r.act_name = "RAISE" THEN act_name ELSE r.act_name
                /\ IF r.act_name = "RAISE"
                     THEN Crash /\ UNCHANGED <<last_act, task_complete>>
                   ELSE IF r.act_name = "FINISH"
                     THEN /\ last_act' = r.last_act
                          /\ task_complete' = TRUE
                          /\ pc' = "epilogue"
                          /\ UNCHANGED <<fail, exit_code>>
                   ELSE IF r.act_name = "ERROR"
                     THEN /\ last_act' = "Unknown"
                          /\ Break("error_action")
                          /\ UNCHANGED <<task_complete, exit_code>>
                   ELSE /\ last_act' = r.last_act
                        /\ pc' = IF r.act_name = "grid" THEN "grid" ELSE "act"
                        /\ UNCHANGED <<fail, task_complete, exit_code>>
  /\ UNCHANGED <<platform, round_count, doc_count, useless_list, clickable_list,
                 focusable_list, elem_list, grid_res, area, tl_bound, docs,
                 decision, resource_id, doc, parsevars, auxvars>>

\* controller.swipe: an unknown direction is refused before the device is asked
SwipeDirs == { UP, <<"d", "o", "w", "n">>, LEFT, <<"r", "i", "g", "h", "t">> }

SwipeRets(dir) == IF dir \in SwipeDirs THEN DeviceRets ELSE {"ERROR"}

\* The parsed tap, text, long_press or swipe is carried out on the device.
Act ==
  /\ pc = "act"
  /\ IF act_name = "text"
       THEN IF ~tl_bound
              THEN /\ Crash
                   /\ UNCHANGED <<area, tl_bound, round_ops, logged>>
            ELSE /\ round_ops' = round_ops \cup {"text"}
                 /\ \E ret \in DeviceRets :
                      IF ret = "ERROR" THEN Break("executor") /\ logged' = logged
                      ELSE /\ pc' = "after" /\ fail' = fail
                           /\ logged' = logged \cup { Entry("report", "action_image") }
                 /\ UNCHANGED <<area, tl_bound, exit_code>>
     ELSE /\ area' = res.area
          /\ IF ~PyIndexOk(elem_list, res.area - 1)
               THEN /\ Crash
                    /\ UNCHANGED <<tl_bound, round_ops, logged>>
             ELSE /\ tl_bound' = TRUE
                  /\ round_ops' = round_ops \cup {act_name}
                  /\ \E ret \in (IF act_name = "swipe" THEN SwipeRets(res.swipe_dir)
                                 ELSE DeviceRets) :
                       IF ret = "ERROR" THEN Break("executor") /\ logged' = logged
                       ELSE /\ pc' = "after" /\ fail' = fail
                            /\ logged' = logged \cup { Entry("report", "action_image") }
                  /\ UNCHANGED exit_code
  /\ UNCHANGED <<platform, round_count, doc_count, useless_list, last_act,
                 task_complete, clickable_list, focusable_list, elem_list, res,
                 grid_res, act_name, docs, decision, resource_id, doc, parsevars, auxvars>>

\* The grid overlay is drawn, the grid prompt sent and its reply parsed.
Grid ==
  /\ pc = "grid"
  /\ round_ops' = round_ops \cup {"grid"}
  /\ \E status \in BOOLEAN, rsp \in GridReplies :
       IF ~status
         THEN /\ Break("gateway")
              /\ logged' = logged \cup { Entry("report", "grid_overlay") }
              /\ UNCHANGED <<grid_res, last_act, task_complete, area, exit_code>>
       ELSE LET g == parse_grid_rsp(rsp)
            IN  /\ logged' = logged \cup
                     { Entry("report", "grid_overlay"), Entry("report", "grid_performance") } \cup
                     (IF g.act_name \in {"FINISH", "tap_grid", "long_press_grid", "swipe_grid"}
                        THEN Reasoning ELSE {})
                /\ IF g.act_name = "RAISE"
                     THEN Crash /\ UNCHANGED <<grid_res, last_act, task_complete, area>>
                   ELSE /\ grid_res' = g
                        /\ IF g.act_name = "FINISH"
                             THEN /\ last_act' = g.last_act
                                  /\ task_complete' = TRUE
                                  /\ pc' = "epilogue"
                                  /\ UNCHANGED <<fail, area, exit_code>>
                           ELSE IF g.act_name \in {"tap_grid", "long_press_grid"}
                             THEN /\ last_act' = g.last_act
                                  /\ area' = g.area
                                  /\ pc' = "gridact"
                                  /\ UNCHANGED <<fail, task_complete, exit_code>>
                           ELSE IF g.act_name = "swipe_grid"
                             THEN /\ last_act' = g.last_act
                                  /\ pc' = "gridact"
                                  /\ UNCHANGED <<fail, task_complete, area, exit_code>>
                           ELSE /\ Break("error_action")
                                /\ UNCHANGED <<last_act, task_complete, area, exit_code>>
  /\ UNCHANGED <<platform, round_count, doc_count, useless_list, clickable_list,
                 focusable_list, elem_list, res, act_name, tl_bound, docs,
                 decision, resource_id, doc, parsevars, auxvars>>

\* the device action a grid action name stands for
GridOp(name) == IF name = "tap_grid" THEN "tap"
                ELSE IF name = "long_press_grid" THEN "long_press"
                ELSE "swipe"

\* The grid tap, long press or swipe is carried out on the device.
GridAct ==
  /\ pc = "gridact"
  /\ round_ops' = round_ops \cup {GridOp(grid_res.act_name)}
  /\ \E ret \in DeviceRets :
       IF ret = "ERROR" THEN Break("executor") /\ logged' = logged
       ELSE /\ pc' = "after" /\ fail' = fail
            /\ logged' = logged \cup
                 { Entry("report", "grid_action_image"), Entry("report", "action_image") }
  /\ UNCHANGED <<platform, round_count, doc_count, useless_list, last_act,
                 task_complete, clickable_list, focusable_list, elem_list, res,
                 grid_res, act_name, area, tl_bound, docs, decision, resource_id, doc,
                 exit_code, parsevars, auxvars>>

\* act_name after the reflection prompt is chosen
ReflectKind(name, dir) ==
  IF name = "swipe"
    THEN IF dir \in {UP, <<"d", "o", "w", "n">>} THEN "v_swipe"
         ELSE IF dir \in {LEFT, <<"r", "i", "g", "h", "t">>} THEN "h_swipe"
         ELSE "swipe"
  ELSE name

\* a text action reflected upon like the others
ReflectedActsWithText == {"tap", "long_press", "swipe", "text"}

\* the actions that get a reflection prompt; after a text action the loop
\* continues with the next round
ReflectedActs == {"tap", "long_press", "swipe"}

\* The after screenshot is taken and the reflection prompt chosen.
After ==
  /\ pc = "after"
  /\ \E shot \in DeviceRets :
       IF shot = "ERROR"
         THEN Break("perception") /\ act_name' = act_name
       ELSE IF act_name \in ReflectedActs
         THEN /\ pc' = "reflect"
              /\ fail' = fail
              /\ act_name' = ReflectKind(act_name, res.swipe_dir)
       ELSE IF act_name = "text"
         THEN pc' = "loop" /\ fail' = fail /\ act_name' = act_name
       ELSE Break("undefined_act") /\ act_name' = act_name
  /\ UNCHANGED <<platform, round_count, doc_count, useless_list, last_act,
                 task_complete, clickable_list, focusable_list, elem_list, res,
                 grid_res, area, tl_bound, docs, decision, resource_id, doc,
                 exit_code, round_ops, logged, parsevars, auxvars>>

\* CONTINUE left out of the verdicts that mark an element useless
MarksUselessNoContinue(d) == d = "INEFFECTIVE" \/ d = "BACK"

\* the verdicts after which the element is put on useless_list
MarksUseless(d) == d = "INEFFECTIVE" \/ d = "BACK" \/ d = "CONTINUE"

\* a history string no verdict resets
LastActKept(d, cur) == cur

\* last_act = "None" in the branches that put the element on useless_list
LastActAfter(d, cur) == IF MarksUseless(d) THEN "None" ELSE cur

\* The reflection prompt is sent, the verdict parsed and acted upon.
Reflect ==
  /\ pc = "reflect"
  /\ \E status \in BOOLEAN, rsp \in ReflectReplies, back_ret \in DeviceRets :
       IF ~status
         THEN /\ Break("gateway")
              /\ round_ops' = round_ops \cup {"reflect"}
              /\ UNCHANGED <<resource_id, decision, doc, useless_list, last_act, docs,
                             doc_count, exit_code, logged>>
       ELSE IF ~PyIndexOk(elem_list, area - 1)
         \* resource_id = elem_list[int(area) - 1].uid: IndexError
         THEN /\ Crash
              /\ round_ops' = round_ops \cup {"reflect"}
              /\ logged' = logged \cup { Entry("report", "reflection_performance") }
              /\ UNCHANGED <<resource_id, decision, doc, useless_list, last_act, docs,
                             doc_count>>
       ELSE LET rid == PyIndex(elem_list, area - 1).uid
                r   == parse_reflect_rsp(rsp)
            IN  /\ resource_id' = rid
                /\ round_ops' = round_ops \cup
                     (IF r.decision = "BACK" THEN {"reflect", "back"} ELSE {"reflect"})
                /\ logged' = logged \cup
                     { Entry("report", "reflection_performance"), Entry("reflect_log", "response") } \cup
                     (IF r.decision \in Decisions \cup {"INEFFECTIVE"}
                        THEN { Entry("report", "reflection") } ELSE {}) \cup
                     (IF r.decision \in Decisions /\ r.doc # ""
                        THEN { Entry("report", "documentation") } ELSE {})
                /\ IF r.decision = "RAISE"
                     THEN /\ Crash
                          /\ UNCHANGED <<decision, doc, useless_list, last_act, docs, doc_count>>
                   ELSE
                     /\ decision' = r.decision
                     /\ IF r.decision = "ERROR"
                          \* reflect_think = res[1] on the one-element list: IndexError
                          THEN /\ Crash
                               /\ UNCHANGED <<doc, useless_list, last_act, docs, doc_count>>
                        ELSE
                          /\ useless_list' = IF MarksUseless(r.decision)
                                               THEN useless_list \cup {rid}
                                             ELSE useless_list
                          /\ last_act' = LastActAfter(r.decision, last_act)
                          /\ IF r.decision = "INEFFECTIVE"
                               THEN /\ pc' = "loop"
                                    /\ UNCHANGED <<fail, doc, docs, doc_count, exit_code>>
                             ELSE IF r.decision = "BACK" /\ back_ret = "ERROR"
                               THEN /\ Break("executor")
                                    /\ UNCHANGED <<doc, docs, doc_count, exit_code>>
                             ELSE
                               /\ doc' = r.doc
                               \* a swipe in no known direction never gets here:
                               \* controller.swipe has refused it
                               /\ IF act_name \notin DocKeys
                                    THEN Crash /\ UNCHANGED <<docs, doc_count>>
                                  ELSE IF AlreadyDocumented(docs[rid], act_name)
                                    THEN /\ pc' = "loop"
                                         /\ UNCHANGED <<fail, docs, doc_count, exit_code>>
                                  ELSE /\ docs' = [docs EXCEPT ![rid] = WriteDoc(docs[rid], act_name, r.doc)]
                                       /\ doc_count' = doc_count + 1
                                       /\ pc' = "loop"
                                       /\ UNCHANGED <<fail, exit_code>>
  /\ UNCHANGED <<platform, round_count, task_complete, clickable_list,
                 focusable_list, elem_list, res, grid_res, act_name, area,
                 tl_bound, parsevars, auxvars>>

\* The script reports how it ended and exits.
Epilogue ==
  /\ pc = "epilogue"
  /\ exit_code' = ExitCode(task_complete, round_count)
  /\ pc' = "exited"
  /\ UNCHANGED <<platform, round_count, doc_count, useless_list, last_act,
                 task_complete, clickable_list, focusable_list, elem_list, res,
                 grid_res, act_name, area, tl_bound, docs, decision, resource_id, doc,
                 fail, round_ops, logged, parsevars, auxvars>>

Next ==
  \/ StartRound
  \/ LoopEnd
  \/ Explore
  \/ Act
  \/ Grid
  \/ GridAct
  \/ After
  \/ Reflect
  \/ Epilogue

Spec == Init /\ [][Next]_vars

\* ------------------------------------------------------------------------
\* The parsers on their own: one reply, handed to one parser
\* ------------------------------------------------------------------------
\* action strings a model can put in a reply
ParseActs ==
  ExploreActs \cup GridActs \cup
  { Bare("tap"),
    Call("tap", <<>>),
    Call("Tap", <<Arg("", <<"1">>)>>),
    Call("tap", <<Arg("", <<"1">>), Arg("", <<"2">>)>>),
    Call("text", <<Arg("", <<"h", "i">>)>>),
    Call("swipe", <<Arg("", <<"1">>), Arg(DQ, UP)>>),
    Call("swipe", <<Arg("", <<"1">>), Arg("", <<"2">>), Arg("", <<"3">>), Arg("", <<"4">>)>>),
    Call("long_press", <<Arg("", <<"1">>), Arg("", <<"2">>)>>),
    Bare("finish"),
    Call("frobnicate", <<Arg(DQ, <<"FINISH">>)>>),
    Bare("CLICK"), Bare("TYPE"), Bare("SLIDE"), Bare("LONGPRESS"), Bare("COMPLETE"),
    Bare("ABORT"), Bare("WAIT"), Bare("AWAKE"), Bare("INFO") }

ParseReplies ==
  { Rsp(f, o, t, a, sm, Absent, Absent, FALSE) :
      f \in {"json", "embedded", "text", "legacy"},
      o \in {Absent, Str("o")},
      t \in {Absent, Str("t")},
      a \in {NoAction} \cup { ActionStr(x) : x \in ParseActs },
      sm \in {Absent, Str(""), Str("s1")} }
  \cup { Rsp(f, o, Str("t"), NumAction, Str("s1"), Absent, Absent, FALSE) :
           f \in {"json", "embedded"}, o \in {Str("o"), Num} }
  \cup { Rsp("json", Num, Str("t"), ActionStr(Call("tap", <<Arg("", <<"1">>)>>)),
             Str("s1"), Absent, Absent, FALSE) }
  \cup ExploreReplies \cup GridReplies \cup ReflectReplies
  \cup { Rsp(f, Absent, Str("t"), NoAction, Absent, Str(d), Str(""), FALSE) :
           f \in {"json", "text"}, d \in Decisions \cup {"INEFFECTIVE"} }

ParseInit ==
  /\ LoopInit
  /\ AuxInit
  /\ platform = "android"
  /\ p_fn = ""
  /\ p_rsp \in ParseReplies
  /\ p_out = NoOut

\* the outcome of a call: what the parser returned, or the exception it let out
ExploreOut(r) ==
  IF r.act_name = "RAISE" THEN POut("RAISE", r.input_str[1])
  ELSE IF r.act_name = "ERROR" THEN POut("ERROR", "")
  ELSE POutFull(r.act_name, "", Str(r.last_act), Str(r.observation), Str(r.think), Absent,
                <<r.area, r.input_str, r.swipe_dir, r.dist>>)

GridOut(r) ==
  IF r.act_name = "RAISE" THEN POut("RAISE", r.subarea[1])
  ELSE IF r.act_name = "ERROR" THEN POut("ERROR", "")
  ELSE POutFull(r.act_name, "", Str(r.last_act), Str(r.observation), Str(r.think), Absent,
                <<r.area, r.subarea, r.end_area, r.end_subarea>>)

ReflectOut(r) ==
  IF r.decision = "RAISE" THEN POut("RAISE", r.think)
  ELSE IF r.decision = "ERROR" THEN POut("ERROR", "")
  ELSE POutFull(r.decision, "", Absent, Absent, Str(r.think),
                IF r.hasdoc THEN Str(r.doc) ELSE Absent, <<>>)

ConnectorOut(r) ==
  IF r.action.action_type = "RAISE" THEN POut("RAISE", r.action.value[1])
  ELSE POutFull(r.action.action_type, "", r.summary, r.observation, r.thought, Absent,
                <<r.action.mode, r.action.target, r.action.end_point, r.action.value,
                  r.action.direction, r.action.distance>>)

\* the outcome of parser fn on reply rsp
ParserOut(fn, rsp) ==
  IF fn = "parse_explore_rsp" THEN ExploreOut(parse_explore_rsp(rsp))
  ELSE IF fn = "parse_grid_rsp" THEN GridOut(parse_grid_rsp(rsp))
  ELSE IF fn = "parse_reflect_rsp" THEN ReflectOut(parse_reflect_rsp(rsp))
  ELSE IF fn = "DefaultConnector.parse_response"
    THEN ConnectorOut(DefaultConnector_parse_response(rsp))
  ELSE IF fn = "GELabConnector.parse_response"
    THEN ConnectorOut(GELabConnector_parse_response(rsp))
  ELSE ConnectorOut(ClaudeConnector_parse_response(rsp))

CallParseExplore ==
  /\ p_fn = ""
  /\ p_fn' = "parse_explore_rsp"
  /\ p_out' = ExploreOut(parse_explore_rsp(p_rsp))
  /\ UNCHANGED <<p_rsp, loopvars, auxvars>>

CallParseGrid ==
  /\ p_fn = ""
  /\ p_fn' = "parse_grid_rsp"
  /\ p_out' = GridOut(parse_grid_rsp(p_rsp))
  /\ UNCHANGED <<p_rsp, loopvars, auxvars>>

CallParseReflect ==
  /\ p_fn = ""
  /\ p_fn' = "parse_reflect_rsp"
  /\ p_out' = ReflectOut(parse_reflect_rsp(p_rsp))
  /\ UNCHANGED <<p_rsp, loopvars, auxvars>>

CallDefaultParse ==
  /\ p_fn = ""
  /\ p_fn' = "DefaultConnector.parse_response"
  /\ p_out' = ConnectorOut(DefaultConnector_parse_response(p_rsp))
  /\ UNCHANGED <<p_rsp, loopvars, auxvars>>

CallGelabParse ==
  /\ p_fn = ""
  /\ p_fn' = "GELabConnector.parse_response"
  /\ p_out' = ConnectorOut(GELabConnector_parse_response(p_rsp))
  /\ UNCHANGED <<p_rsp, loopvars, auxvars>>

CallClaudeParse ==
  /\ p_fn = ""
  /\ p_fn' = "ClaudeConnector.parse_response"
  /\ p_out' = ConnectorOut(ClaudeConnector_parse_response(p_rsp))
  /\ UNCHANGED <<p_rsp, loopvars, auxvars>>

ParseNext ==
  \/ CallParseExplore
  \/ CallParseGrid
  \/ CallParseReflect
  \/ CallDefaultParse
  \/ CallGelabParse
  \/ CallClaudeParse

SpecParse == ParseInit /\ [][ParseNext]_vars

\* ------------------------------------------------------------------------
\* Conversion of a model's point to device pixels
\* ------------------------------------------------------------------------
\* the normalized range of a model's coordinates
NORM_RANGE == 1000

\* int(n / d) for d > 0: Python's int() cuts toward zero
PyTrunc(n, d) == IF n >= 0 THEN n \div d ELSE 0 - ((0 - n) \div d)

\* int(p / 1000 * size)
Scale(p, size) == PyTrunc(p * size, NORM_RANGE)

PyMin(a, b) == IF a <= b THEN a ELSE b

PyMax(a, b) == IF a >= b THEN a ELSE b

\* BaseConnector.convert_coords_to_pixels, which DefaultConnector and
\* GELabConnector inherit
BaseConnector_convert_coords_to_pixels(point, device_size) ==
  <<Scale(point[1], device_size[1]), Scale(point[2], device_size[2])>>

ClaudeConnector_convert_coords_to_pixels(point, device_size) ==
  <<PyMax(0, PyMin(Scale(point[1], device_size[1]), device_size[1] - 1)),
    PyMax(0, PyMin(Scale(point[2], device_size[2]), device_size[2] - 1))>>

gelab_coords_to_device(point, device_size) ==
  <<Scale(point[1], device_size[1]), Scale(point[2], device_size[2])>>

\* coordinates a model can emit, inside and outside the normalized range
PointValues == {-1, 0, 500, 999, 1000, 1001}

\* device sizes (width, height)
DeviceSizes == { <<1080, 1920>>, <<320, 480>> }

CoordsInit ==
  /\ LoopInit
  /\ AuxInit
  /\ platform = "android"
  /\ p_fn = ""
  /\ p_rsp \in [point : PointValues \X PointValues, device_size : DeviceSizes]
  /\ p_out = <<>>

CallBaseConvert ==
  /\ p_fn = ""
  /\ p_fn' = "BaseConnector.convert_coords_to_pixels"
  /\ p_out' = BaseConnector_convert_coords_to_pixels(p_rsp.point, p_rsp.device_size)
  /\ UNCHANGED <<p_rsp, loopvars, auxvars>>

CallClaudeConvert ==
  /\ p_fn = ""
  /\ p_fn' = "ClaudeConnector.convert_coords_to_pixels"
  /\ p_out' = ClaudeConnector_convert_coords_to_pixels(p_rsp.point, p_rsp.device_size)
  /\ UNCHANGED <<p_rsp, loopvars, auxvars>>

CallGelabCoordsToDevice ==
  /\ p_fn = ""
  /\ p_fn' = "gelab_coords_to_device"
  /\ p_out' = gelab_coords_to_device(p_rsp.point, p_rsp.device_size)
  /\ UNCHANGED <<p_rsp, loopvars, auxvars>>

CoordsNext ==
  \/ CallBaseConvert
  \/ CallClaudeConvert
  \/ CallGelabCoordsToDevice

SpecCoords == CoordsInit /\ [][CoordsNext]_vars

\* ------------------------------------------------------------------------
\* Grid mode: the overlay draw_grid renders and the pixel of a grid action
\* ------------------------------------------------------------------------
MIN_UNIT == 120

MAX_UNIT == 180

DEFAULT_UNIT == 120

\* the candidates the loop of get_unit_len accepts: for i in range(1, n + 1),
\* n % i == 0 and 120 <= i <= 180
UnitCandidates(n) == { i \in 1..n : n % i = 0 /\ MIN_UNIT <= i /\ i <= MAX_UNIT }

\* a cell size that is always the default
NoUnitLen(n) == -1

\* get_unit_len, defined alike in draw_grid and calculate_grid_coordinates
get_unit_len(n) ==
  IF UnitCandidates(n) = {} THEN -1
  ELSE CHOOSE i \in UnitCandidates(n) : \A j \in UnitCandidates(n) : i <= j   \* the first one met

\* unit_height / unit_width after the "if unit < 0" default
UnitLen(n) == IF get_unit_len(n) < 0 THEN DEFAULT_UNIT ELSE get_unit_len(n)

\* draw_grid: the lattice and the rectangle drawn for every label
draw_grid(width, height) ==
  LET unit_height == UnitLen(height)
      unit_width  == UnitLen(width)
      rows == height \div unit_height
      cols == width \div unit_width
  IN  [unit_width |-> unit_width, unit_height |-> unit_height, rows |-> rows, cols |-> cols,
       cells |-> { [label |-> i * cols + j + 1,
                    left |-> j * unit_width, top |-> i * unit_height,
                    right |-> (j + 1) * unit_width, bottom |-> (i + 1) * unit_height] :
                   i \in 0..(rows - 1), j \in 0..(cols - 1) }]

\* subarea_offsets, in tenths of a cell
SubareaNames ==
  {"center", "top-left", "top", "top-right", "left", "right",
   "bottom-left", "bottom", "bottom-right"}

SubareaOffset(subarea) ==
  IF subarea = "top-left" THEN <<2, 2>>
  ELSE IF subarea = "top" THEN <<5, 2>>
  ELSE IF subarea = "top-right" THEN <<8, 2>>
  ELSE IF subarea = "left" THEN <<2, 5>>
  ELSE IF subarea = "right" THEN <<8, 5>>
  ELSE IF subarea = "bottom-left" THEN <<2, 8>>
  ELSE IF subarea = "bottom" THEN <<5, 8>>
  ELSE IF subarea = "bottom-right" THEN <<8, 8>>
  ELSE <<5, 5>>

\* a row index that counts the area itself instead of the areas before it
AreaRowOffByOne(n_area, cols) == n_area \div cols

\* row = area_index // cols
AreaRow(n_area, cols) == (n_area - 1) \div cols

\* col = area_index % cols
AreaCol(n_area, cols) == (n_area - 1) % cols

calculate_grid_coordinates(n_area, subarea, screen_width, screen_height, rows, cols) ==
  LET unit_height == UnitLen(screen_height)
      unit_width  == UnitLen(screen_width)
      row    == AreaRow(n_area, cols)
      col    == AreaCol(n_area, cols)
      left   == col * unit_width
      top    == row * unit_height
      right  == (col + 1) * unit_width
      bottom == (row + 1) * unit_height
      off    == SubareaOffset(subarea)
  IN  [x |-> PyTrunc(left * 10 + (right - left) * off[1], 10),
       y |-> PyTrunc(top * 10 + (bottom - top) * off[2], 10),
       unit_width |-> unit_width, unit_height |-> unit_height]

\* screen sizes (width, height): with several divisors in range, with one,
\* and with none
GridSizes == { <<720, 1280>>, <<427, 250>>, <<360, 540>> }

\* what the model can put in a grid action; "middle" is no sub-area name
GridSubareas == SubareaNames \cup {"middle"}

GridInit ==
  /\ LoopInit
  /\ AuxInit
  /\ platform = "android"
  /\ p_fn = ""
  /\ \E size \in GridSizes :
       \E n_area \in 1..(draw_grid(size[1], size[2]).rows * draw_grid(size[1], size[2]).cols) :
         \E subarea \in GridSubareas :
           p_rsp = [width |-> size[1], height |-> size[2], area |-> n_area, subarea |-> subarea]
  /\ p_out = <<>>

\* the overlay is drawn for the screenshot of the round
CallDrawGrid ==
  /\ p_fn = ""
  /\ p_fn' = "draw_grid"
  /\ p_out' = draw_grid(p_rsp.width, p_rsp.height)
  /\ UNCHANGED <<p_rsp, loopvars, auxvars>>

\* the pixel of a grid action, with the rows and cols draw_grid returned
CallCalculateGridCoordinates ==
  /\ p_fn = ""
  /\ p_fn' = "calculate_grid_coordinates"
  /\ p_out' = calculate_grid_coordinates(p_rsp.area, p_rsp.subarea, p_rsp.width, p_rsp.height,
                                         draw_grid(p_rsp.width, p_rsp.height).rows,
                                         draw_grid(p_rsp.width, p_rsp.height).cols)
  /\ UNCHANGED <<p_rsp, loopvars, auxvars>>

GridNext ==
  \/ CallDrawGrid
  \/ CallCalculateGridCoordinates

SpecGrid == GridInit /\ [][GridNext]_vars

\* ------------------------------------------------------------------------
\* run_gelab_task: the task loop of the GELab models
\* ------------------------------------------------------------------------
MaxGelabRounds == 2

\* the dict run_gelab_round returns
RoundResult(success, action_type, summary, error) ==
  [success |-> success, action_type |-> action_type, summary |-> summary, error |-> error]

\* the action kinds run_gelab_round sends to the device
GelabDeviceActions == {"tap_coords", "text", "swipe_coords", "long_press_coords"}

\* run_gelab_round: screenshot, model call, parse_response, execution; shot
\* and llm tell whether the screenshot and the model call succeeded, ret is
\* what the device returned; an action kind without a branch is only printed
\* as unknown; an exception of the parser leaves the function
run_gelab_round(shot, llm, rsp, ret, last_summary) ==
  IF ~shot THEN RoundResult(FALSE, "ERROR", last_summary, "Failed to capture screenshot")
  ELSE IF ~llm THEN RoundResult(FALSE, "ERROR", last_summary, "LLM call failed")
  ELSE LET parsed == GELabConnector_parse_response(rsp)
           action_type == parsed.action.action_type
           new_summary == parsed.summary
       IN  IF action_type = "RAISE" THEN RoundResult(FALSE, "RAISE", last_summary, parsed.action.value[1])
           ELSE IF action_type = "FINISH" THEN RoundResult(TRUE, "FINISH", new_summary, "")
           ELSE IF action_type \in GelabDeviceActions /\ ret = "ERROR"
             THEN RoundResult(FALSE, action_type, new_summary, "execution failed")
           ELSE RoundResult(TRUE, action_type, new_summary, "")

\* the dict run_gelab_task returns
TaskReturn(success, rounds, error) == [success |-> success, rounds |-> rounds, error |-> error]

\* run_gelab_task up to its loop
StartGelabTask ==
  /\ t_pc = "idle"
  /\ t_pc' = "loop"
  /\ t_round' = 0
  /\ t_summary' = Str("")
  /\ UNCHANGED <<t_result, t_return, loopvars, parsevars, wrapvars, scriptvars, enginevars>>

\* one pass of the loop of run_gelab_task
GelabRound ==
  /\ t_pc = "loop"
  /\ t_round < MaxGelabRounds
  /\ \E shot \in BOOLEAN, llm \in BOOLEAN, rsp \in ParseReplies, ret \in {"OK", "ERROR"} :
       LET result == run_gelab_round(shot, llm, rsp, ret, t_summary)
       IN  /\ t_round' = t_round + 1
           /\ t_result' = result
           /\ IF result.action_type = "RAISE"
                THEN /\ t_pc' = "crashed"
                     /\ UNCHANGED <<t_summary, t_return>>
              ELSE IF ~result.success
                THEN /\ t_pc' = "returned"
                     /\ t_return' = TaskReturn(FALSE, t_round + 1, result.error)
                     /\ UNCHANGED t_summary
              ELSE IF result.action_type = "FINISH"
                THEN /\ t_pc' = "returned"
                     /\ t_return' = TaskReturn(TRUE, t_round + 1, "")
                     /\ UNCHANGED t_summary
              ELSE /\ t_summary' = result.summary
                   /\ UNCHANGED <<t_pc, t_return>>
  /\ UNCHANGED <<loopvars, parsevars, wrapvars, scriptvars, enginevars>>

\* the loop of run_gelab_task ends without a FINISH
GelabMaxRounds ==
  /\ t_pc = "loop"
  /\ t_round >= MaxGelabRounds
  /\ t_pc' = "returned"
  /\ t_return' = TaskReturn(FALSE, t_round, "Max rounds reached without completing task")
  /\ UNCHANGED <<t_round, t_summary, t_result, loopvars, parsevars, wrapvars, scriptvars, enginevars>>

GelabTaskInit ==
  /\ LoopInit
  /\ AuxInit
  /\ platform = "android"
  /\ p_fn = ""
  /\ p_rsp = <<>>
  /\ p_out = <<>>

GelabTaskNext ==
  \/ StartGelabTask
  \/ GelabRound
  \/ GelabMaxRounds

SpecGelabTask == GelabTaskInit /\ [][GelabTaskNext]_vars

\* ------------------------------------------------------------------------
\* LegacyEngineWrapper and the self_explorer.py process it runs
\* ------------------------------------------------------------------------
ScriptRounds == 2

\* the emulator start_emulator launches, and one somebody else is running
EMU_OWN == "emulator-5554"

EMU_OTHER == "emulator-5556"

\* cleanup_on_exit: the serials it hands to stop_emulator
cleanup_on_exit(flag, serial) == IF flag /\ serial # "None" THEN {serial} ELSE {}

\* sys.exit: the atexit handler cleanup_on_exit runs, the process ends;
\* stop_emulator sends "emu kill" to the serial
ScriptExit(code, flag, serial, running) ==
  /\ s_pc' = "exited"
  /\ s_exit' = code
  /\ s_stopped' = s_stopped \cup cleanup_on_exit(flag, serial)
  /\ s_running' = running \ cleanup_on_exit(flag, serial)

\* list_all_devices; without a device start_emulator launches the first AVD
ScriptListDevices ==
  /\ s_pc = "start"
  /\ IF s_running # {}
       THEN /\ s_pc' = "select"
            /\ UNCHANGED <<s_running, s_stopped, s_exit>>
     ELSE \E launched \in BOOLEAN :
            IF launched
              THEN /\ s_pc' = "booting"
                   /\ s_running' = {EMU_OWN}
                   /\ UNCHANGED <<s_stopped, s_exit>>
            ELSE ScriptExit(0, s_flag, s_serial, s_running)
  /\ UNCHANGED <<s_flag, s_serial, s_signal, s_rounds, wrapvars, enginevars, taskvars, loopvars, parsevars>>

\* wait_for_device returns: start_emulator is True and the flag is set, or it
\* timed out and the script exits; another device may have come up meanwhile
ScriptEmulatorBooted ==
  /\ s_pc = "booting"
  /\ \E ok \in BOOLEAN, other \in BOOLEAN :
       LET running == s_running \cup (IF other THEN {EMU_OTHER} ELSE {})
       IN  IF ok
             THEN /\ s_flag' = TRUE
                  /\ s_pc' = "relist"
                  /\ s_running' = running
                  /\ UNCHANGED <<s_stopped, s_exit>>
           ELSE /\ ScriptExit(0, s_flag, s_serial, running)
                /\ UNCHANGED s_flag
  /\ UNCHANGED <<s_serial, s_signal, s_rounds, wrapvars, enginevars, taskvars, loopvars, parsevars>>

\* the device list is read again after the emulator started
ScriptRelist ==
  /\ s_pc = "relist"
  /\ \E gone \in BOOLEAN :
       IF gone
         THEN ScriptExit(0, s_flag, s_serial, {})
       ELSE /\ s_pc' = "select"
            /\ UNCHANGED <<s_running, s_stopped, s_exit>>
  /\ UNCHANGED <<s_flag, s_serial, s_signal, s_rounds, wrapvars, enginevars, taskvars, loopvars, parsevars>>

\* the only device, or the one typed in, becomes _device_serial; the
\* controller asks it for its size
ScriptSelect ==
  /\ s_pc = "select"
  /\ \E device \in s_running, size_ok \in BOOLEAN :
       /\ s_serial' = device
       /\ IF size_ok
            THEN /\ s_pc' = "run"
                 /\ UNCHANGED <<s_running, s_stopped, s_exit>>
          ELSE ScriptExit(0, s_flag, device, s_running)
  /\ UNCHANGED <<s_flag, s_signal, s_rounds, wrapvars, enginevars, taskvars, loopvars, parsevars>>

\* one round of the task loop
ScriptRound ==
  /\ s_pc = "run"
  /\ s_rounds < ScriptRounds
  /\ s_rounds' = s_rounds + 1
  /\ UNCHANGED <<s_pc, s_flag, s_serial, s_running, s_stopped, s_signal, s_exit,
                 wrapvars, enginevars, taskvars, loopvars, parsevars>>

\* the loop is left and the script exits with its status
ScriptFinish ==
  /\ s_pc = "run"
  /\ \E code \in {0, 1} : ScriptExit(code, s_flag, s_serial, s_running)
  /\ UNCHANGED <<s_flag, s_serial, s_signal, s_rounds, wrapvars, enginevars, taskvars, loopvars, parsevars>>

\* signal_handler: cleanup_on_exit, then sys.exit(0)
signal_handler ==
  /\ s_signal' = TRUE
  /\ ScriptExit(0, s_flag, s_serial, s_running)
  /\ UNCHANGED <<s_flag, s_serial, s_rounds>>

\* SIGINT or SIGTERM reaches the running script
ScriptSignal ==
  /\ s_pc \notin {"notrun", "exited"}
  /\ signal_handler
  /\ UNCHANGED <<wrapvars, enginevars, taskvars, loopvars, parsevars>>

\* the dict execute_task returns
WrapperReturn(success, error) == [success |-> success, rounds |-> 0, error |-> error]

\* LegacyEngineWrapper.start
WrapperStart ==
  /\ w_pc = "idle"
  /\ w_status = "IDLE"
  /\ w_status' = "READY"
  /\ UNCHANGED <<w_pc, w_process, w_ret, scriptvars, enginevars, taskvars, loopvars, parsevars>>

\* LegacyEngineWrapper.stop: a running process is terminated
WrapperStop ==
  /\ w_status' = "IDLE"
  /\ IF w_process = "running" /\ s_pc \notin {"notrun", "exited"}
       THEN signal_handler
     ELSE UNCHANGED scriptvars
  /\ UNCHANGED <<w_pc, w_process, w_ret, enginevars, taskvars, loopvars, parsevars>>

\* LegacyEngineWrapper.execute_task up to the reading of the script's output
ExecuteTaskBegin ==
  /\ w_pc = "idle"
  /\ \E exists \in BOOLEAN, popen_ok \in BOOLEAN, devices \in {{}, {EMU_OTHER}} :
       IF ~exists
         THEN /\ w_status' = "RUNNING"
              /\ w_pc' = "returned"
              /\ w_ret' = WrapperReturn(FALSE, "self_explorer.py not found")
              /\ UNCHANGED <<w_process, scriptvars>>
       ELSE IF ~popen_ok
         THEN /\ w_status' = "ERROR"
              /\ w_pc' = "returned"
              /\ w_ret' = WrapperReturn(FALSE, "exception")
              /\ UNCHANGED <<w_process, scriptvars>>
       ELSE /\ w_status' = "RUNNING"
            /\ w_pc' = "executing"
            /\ w_process' = "running"
            /\ s_pc' = "start"
            /\ s_running' = devices
            /\ UNCHANGED <<w_ret, s_flag, s_serial, s_stopped, s_signal, s_rounds, s_exit>>
  /\ UNCHANGED <<enginevars, taskvars, loopvars, parsevars>>

\* the script has ended: process.wait returns, the status goes back to IDLE
ExecuteTaskEnd ==
  /\ w_pc = "executing"
  /\ s_pc = "exited"
  /\ w_process' = "exited"
  /\ w_status' = "IDLE"
  /\ w_pc' = "returned"
  /\ w_ret' = IF s_exit = 0 THEN WrapperReturn(TRUE, "")
              ELSE WrapperReturn(FALSE, "Task failed with exit code")
  /\ UNCHANGED <<scriptvars, enginevars, taskvars, loopvars, parsevars>>

AppAgentInit ==
  /\ LoopInit
  /\ AuxInit
  /\ platform = "android"
  /\ p_fn = ""
  /\ p_rsp = <<>>
  /\ p_out = <<>>

AppAgentNext ==
  \/ WrapperStart
  \/ WrapperStop
  \/ ExecuteTaskBegin
  \/ ExecuteTaskEnd
  \/ ScriptListDevices
  \/ ScriptEmulatorBooted
  \/ ScriptRelist
  \/ ScriptSelect
  \/ ScriptRound
  \/ ScriptFinish
  \/ ScriptSignal

SpecAppAgent == AppAgentInit /\ [][AppAgentNext]_vars

\* ------------------------------------------------------------------------
\* GELabEngine: execute_task of engines/gelab/main.py and its signal handler
\* ------------------------------------------------------------------------
MaxSteps == 3

\* the dict execute_task returns: success, total_steps, stop_reason or message
EngineReturn(success, steps, reason) == [success |-> success, rounds |-> steps, error |-> reason]

\* _return_error
EngineReturnError(msg) ==
  /\ e_status' = "IDLE"
  /\ e_pc' = "returned"
  /\ e_ret' = EngineReturn(FALSE, 0, msg)

\* execute_task up to the call of evaluate_task_on_device: the imports and
\* the device detection can fail
EngineExecuteBegin ==
  /\ e_pc = "idle"
  /\ \E outcome \in {"ImportError", "No Android devices connected", "ok"} :
       IF outcome # "ok"
         THEN EngineReturnError(outcome) /\ UNCHANGED e_steps
       ELSE /\ e_status' = "RUNNING"
            /\ e_pc' = "rollout"
            /\ e_steps' = 0
            /\ UNCHANGED e_ret
  /\ UNCHANGED <<e_shutdown, e_after, wrapvars, scriptvars, taskvars, loopvars, parsevars>>

\* timed_automate_step is called for the next round, at most max_steps
\* times; it calls the original automate_step whatever the flag says
EngineStepBegin ==
  /\ e_pc = "rollout"
  /\ e_steps < MaxSteps
  /\ e_pc' = "step"
  /\ e_steps' = e_steps + 1
  /\ e_after' = IF e_shutdown THEN e_after + 1 ELSE e_after
  /\ UNCHANGED <<e_status, e_shutdown, e_ret, wrapvars, scriptvars, taskvars, loopvars, parsevars>>

\* automate_step returns or raises; an exception reaches the except branch
\* of execute_task
EngineStepEnd ==
  /\ e_pc = "step"
  /\ \E raised \in BOOLEAN :
       IF raised
         THEN EngineReturnError("exception")
       ELSE /\ e_pc' = "rollout"
            /\ UNCHANGED <<e_status, e_ret>>
  /\ UNCHANGED <<e_shutdown, e_steps, e_after, wrapvars, scriptvars, taskvars, loopvars, parsevars>>

\* evaluate_task_on_device returns its stop reason; the status goes back to
\* IDLE and the result is returned
EngineRolloutEnd ==
  /\ e_pc = "rollout"
  /\ e_steps >= 1
  /\ \E stop_reason \in {"COMPLETE", "ABORT", "MAX_STEPS"} :
       /\ stop_reason = "MAX_STEPS" => e_steps = MaxSteps
       /\ e_ret' = EngineReturn(stop_reason = "COMPLETE", e_steps, stop_reason)
  /\ e_status' = "IDLE"
  /\ e_pc' = "returned"
  /\ UNCHANGED <<e_shutdown, e_steps, e_after, wrapvars, scriptvars, taskvars, loopvars, parsevars>>

\* signal_handler of engines/gelab/main.py: the flag is set, nothing else
EngineSignal ==
  /\ e_pc \in {"rollout", "step"}
  /\ e_shutdown' = TRUE
  /\ UNCHANGED <<e_pc, e_status, e_steps, e_after, e_ret, wrapvars, scriptvars, taskvars, loopvars, parsevars>>

\* the controller prints the result and exits
EngineExit ==
  /\ e_pc = "returned"
  /\ e_pc' = "exited"
  /\ UNCHANGED <<e_status, e_shutdown, e_steps, e_after, e_ret, wrapvars, scriptvars, taskvars, loopvars, parsevars>>

GelabEngineInit ==
  /\ LoopInit
  /\ AuxInit
  /\ platform = "android"
  /\ p_fn = ""
  /\ p_rsp = <<>>
  /\ p_out = <<>>

GelabEngineNext ==
  \/ EngineExecuteBegin
  \/ EngineStepBegin
  \/ EngineStepEnd
  \/ EngineRolloutEnd
  \/ EngineSignal
  \/ EngineExit

SpecGelabEngine == GelabEngineInit /\ [][GelabEngineNext]_vars

\* ------------------------------------------------------------------------
\* Properties of the task loop
\* ------------------------------------------------------------------------
DeviceOps == {"tap", "text", "long_press", "swipe", "back"}

InRound == pc \in {"explore", "act", "grid", "gridact", "after", "reflect"}

\* C1: a run whose loop ended through a failure (Error action, gateway,
\* executor or reflection failure), in whichever round, exits non-zero.
C1_AbortExitsNonZero ==
  (pc = "exited" /\ fail # "none") => exit_code # 0

\* C2: when MAX_ROUNDS rounds complete without Finish and without failure,
\* the loop has run exactly MAX_ROUNDS rounds and the exit code is 0.
C2_RoundLimitIsSuccess ==
  /\ round_count <= MAX_ROUNDS
  /\ (pc = "exited" /\ fail = "none" /\ ~task_complete)
       => (round_count = MAX_ROUNDS /\ exit_code = 0)

C2_Witness ==
  pc = "exited" /\ fail = "none" /\ ~task_complete /\ round_count = MAX_ROUNDS

\* C3: once the explore reply or the grid reply has parsed to FINISH, the
\* loop is over: no device action and no reflection call in that round, no
\* further round, and the run ends with exit code 0.
C3_FinishStopsTheLoop ==
  (res.act_name = "FINISH" \/ grid_res.act_name = "FINISH")
    => /\ pc \in {"epilogue", "exited"}
       /\ task_complete
       /\ round_ops \cap DeviceOps = {}
       /\ "reflect" \notin round_ops
       /\ (pc = "exited" => exit_code = 0)

C3_Witness ==
  pc = "exited" /\ grid_res.act_name = "FINISH" /\ round_count < MAX_ROUNDS

\* C4: after a failure nothing more is asked of the model or the device:
\* the round is not retried and no later round starts.
C4_FailFast ==
  [][fail # "none" =>
       /\ round_ops' = round_ops
       /\ round_count' = round_count
       /\ pc' \in {"epilogue", "exited"}]_vars

C4_Witness ==
  pc = "exited" /\ fail = "gateway" /\ "reflect" \in round_ops

C6_UselessNeverPresented ==
  /\ [](InRound => \A i \in 1..Len(elem_list) : elem_list[i].uid \notin useless_list)
  /\ [][useless_list \subseteq useless_list']_vars

C6_Witness ==
  /\ pc = "explore"
  /\ Len(elem_list) >= 1
  /\ \E i \in 1..Len(clickable_list) : clickable_list[i].uid \in useless_list

\* C7: a non-empty documentation entry is never changed; recording for a
\* pair that has one changes neither the store nor the count, recording for
\* a pair that has none writes the text and counts it.
C7_RecordKeepsFirstEntry ==
  [][/\ \A u \in UIDs, k \in DocKeys :
          docs[u].content[k] # "" => docs'[u].content[k] = docs[u].content[k]
     /\ (doc_count' # doc_count => docs' # docs)
     /\ (pc = "reflect" /\ pc' = "loop" /\ decision' \in Decisions)
          => IF docs[resource_id'].content[act_name] # ""
               THEN docs' = docs /\ doc_count' = doc_count
             ELSE /\ docs'[resource_id'].content[act_name] = doc'
                  /\ doc_count' = doc_count + 1]_vars

C7_Witness ==
  /\ pc = "loop"
  /\ decision = "SUCCESS"
  /\ docs[resource_id].content[act_name] \notin {"", doc}

\* C8: a round whose action is Text makes no reflection call, and unless
\* the device reports a failure it is not aborted.
C8_TextRoundSkipsReflection ==
  act_name = "text" =>
    /\ "reflect" \notin round_ops
    /\ pc # "reflect"
    /\ fail \in {"none", "executor", "perception"}

\* C9: a round in which the grid reply gave a tap, long press or swipe is
\* not aborted unless the device reports a failure.
C9_GridActionNotAborted ==
  (act_name = "grid" /\ grid_res.act_name \in {"tap_grid", "long_press_grid", "swipe_grid"})
    => fail \in {"none", "executor", "perception"}

\* C18: in the element list presented in a round, on Android and on the web,
\* no two kept elements have centres within MIN_DIST pixels of each other
C18_KeptElementsApart ==
  InRound =>
    \A i, j \in 1..Len(elem_list) :
      i < j => Dist2(Center(elem_list[i].bbox), Center(elem_list[j].bbox)) > MIN_DIST * MIN_DIST

\* the message of an abort, as an entry of a file
AbortReason(file) == Entry(file, "error")

\* C20: on every abort path of the loop the abort reason has been written to
\* the log of the round and to the Markdown report when the process exits
C20_AbortReasonLogged ==
  (pc = "exited" /\ fail \notin {"none", "exception"}) =>
    /\ AbortReason("report") \in logged
    /\ AbortReason("explore_log") \in logged \/ AbortReason("reflect_log") \in logged

\* a round has ended without aborting and the next one is about to start:
\* last_act is what the next prompt will carry
NextRoundStarts == pc = "loop" /\ round_count >= 1 /\ LoopCond(round_count) /\ fail = "none"

C24_RoundCounter ==
  /\ round_count = 0
  /\ [][/\ round_count' = IF pc = "loop" /\ round_count < MAX_ROUNDS
                            THEN round_count + 1 ELSE round_count
        /\ round_count' <= MAX_ROUNDS
        /\ pc = "grid" => ("grid" \notin round_ops /\ "grid" \in round_ops' /\ pc' # "grid")
        /\ round_ops' # round_ops => (pc = "loop" \/ round_ops \subseteq round_ops')]_vars

\* the last round has acted after a grid re-prompt
C24_Witness ==
  /\ round_count = MAX_ROUNDS
  /\ pc = "after"
  /\ "grid" \in round_ops

\* the verdicts parse_reflect_rsp can return
Verdicts == {"BACK", "INEFFECTIVE", "CONTINUE", "SUCCESS"}

\* C27: the documentation and the useless list change only in the reflection
\* step of a tap, long press or swipe round and only when the reflection
\* returned a verdict: a round that ends at FINISH, after a text action, at
\* an ERROR action, at a failed model call or at a failed device call before
\* the verdict leaves both as they were when it started
C27_StoresChangeOnlyOnVerdict ==
  [][(docs' # docs \/ useless_list' # useless_list)
       => (/\ pc = "reflect"
           /\ act_name \in {"tap", "long_press", "swipe", "v_swipe", "h_swipe"}
           /\ decision' \in Verdicts
           /\ Entry("report", "reflection") \in logged')]_vars

\* a text round that followed a round which documented an element
C27_Witness ==
  /\ round_count >= 2
  /\ pc = "loop"
  /\ act_name = "text"
  /\ "reflect" \notin round_ops
  /\ doc_count >= 1
  /\ useless_list # {}

\* the device calls of the label actions
LabelOps == {"tap", "long_press", "swipe"}

\* C28: a tap, long press or swipe whose label is not one of the labels
\* 1..n drawn on the n presented elements reaches no device call: no element
\* is acted upon in that round
C28_LabelOutsideRangeActsOnNothing ==
  (/\ pc \in {"after", "reflect"}
   /\ res.act_name \in LabelOps
   /\ ~(1 <= res.area /\ res.area <= Len(elem_list)))
    => round_ops \cap LabelOps = {}

\* ------------------------------------------------------------------------
\* Properties of the parsers
\* ------------------------------------------------------------------------
\* C10: parse_explore_rsp, parse_grid_rsp, parse_reflect_rsp and every
\* connector's parse_response return a value for every reply (Error when the
\* reply cannot be parsed) and never let an exception out
C10_ParsersNeverRaise == p_fn # "" => p_out.name # "RAISE"

\* the parsers that return an action
ActionParsers ==
  {"parse_explore_rsp", "parse_grid_rsp", "DefaultConnector.parse_response",
   "GELabConnector.parse_response", "ClaudeConnector.parse_response"}

\* the parser returned an action other than Error
ParsedAction == p_fn \in ActionParsers /\ p_out.name \notin {"ERROR", "RAISE"}

\* C11: whenever a reply parses to a non-Error action, the summary that
\* comes with it is a non-empty string (the placeholder when the reply has
\* no Summary or an empty one), in the structured and in the fallback grammar
C11_SummaryNeverEmpty ==
  ParsedAction => (p_out.summary.k = "str" /\ p_out.summary.s # "")

\* the reply with its Observation and Thought filled in
WithReasoning(rsp) == [rsp EXCEPT !.Observation = Str("o"), !.Thought = Str("t")]

\* C12: in the structured and in the fallback grammar, a reply with a valid
\* Action that lacks Observation or Thought parses to the same action with
\* the missing field empty, and a reply that lacks Action parses to Error
C12_MissingFieldsTolerated ==
  (p_fn \in ActionParsers /\ p_rsp.fmt \in {"json", "text"}) =>
    LET full == ParserOut(p_fn, WithReasoning(p_rsp))
    IN  /\ p_rsp.Action.k = "absent" => p_out.name = "ERROR"
        /\ (/\ p_rsp.Action.k = "str"
            /\ full.name \notin {"ERROR", "RAISE"}
            /\ "absent" \in {p_rsp.Observation.k, p_rsp.Thought.k})
           => /\ p_out.name = full.name
              /\ p_out.params = full.params
              /\ p_rsp.Observation.k = "absent" => p_out.observation = Str("")
              /\ p_rsp.Thought.k = "absent" => p_out.thought = Str("")

\* C13: a reply whose Action names a function outside the supported set,
\* such as frobnicate, parses to Error whatever its arguments are, in both
\* grammars and in every connector
C13_UnknownActionIsError ==
  (/\ p_fn \in ActionParsers
   /\ p_rsp.Action.k = "str"
   /\ p_rsp.Action.a.fn = "frobnicate")
  => p_out.name = "ERROR"

\* the plain-text form of a structured reply
AsText(rsp) == [rsp EXCEPT !.fmt = "text"]

\* a structured reply with all four fields that the parser accepts
ValidStructured ==
  /\ p_fn \in ActionParsers \ {"GELabConnector.parse_response"}
  /\ p_rsp.fmt = "json"
  /\ \A f \in {p_rsp.Observation, p_rsp.Thought, p_rsp.Summary} : f.k = "str" /\ f.s # ""
  /\ p_rsp.Action.k = "str"
  /\ p_out.name \notin {"ERROR", "RAISE"}

\* C14: for every valid structured reply, the structured form and the
\* plain-text form with the same fields parse to the same action kind, the
\* same parameters and the same observation, thought and summary
C14_GrammarEquivalence ==
  ValidStructured => p_out = ParserOut(p_fn, AsText(p_rsp))

\* C19: in both grammars a parsed verdict of BACK, CONTINUE or SUCCESS
\* carries non-empty documentation, the placeholder when the reply gave
\* none, and a verdict of INEFFECTIVE carries none
C19_DocumentationByVerdict ==
  p_fn = "parse_reflect_rsp" =>
    /\ p_out.name \in Decisions =>
         (p_out.documentation.k = "str" /\ p_out.documentation.s # "")
    /\ p_out.name = "INEFFECTIVE" => p_out.documentation.k = "absent"

\* the connector whose parse_response was called
ConnectorCalled ==
  IF p_fn = "DefaultConnector.parse_response" THEN "default"
  ELSE IF p_fn = "GELabConnector.parse_response" THEN "gelab"
  ELSE "claude"

\* C23: every action a connector's parse_response returns with a target has
\* the target in the representation the connector declares in action_format:
\* an element index for a label connector, a point for a coords connector
C23_TargetModeFixed ==
  (/\ p_fn \in ActionParsers \ {"parse_explore_rsp", "parse_grid_rsp"}
   /\ p_out.name \notin {"ERROR", "RAISE"}
   /\ p_out.params[1] # "none")
    => p_out.params[1] = action_format(ConnectorCalled)

\* C29: parse_explore_rsp and DefaultConnector.parse_response return FINISH
\* only for a reply whose action is the word FINISH: an action that carries
\* FINISH in an argument, such as text("FINISH"), is parsed as that action
C29_FinishOnlyForFinishToken ==
  (/\ p_fn \in {"parse_explore_rsp", "DefaultConnector.parse_response"}
   /\ p_out.name = "FINISH")
    => (p_rsp.Action.k = "str" /\ p_rsp.Action.a = Bare("FINISH"))

\* ------------------------------------------------------------------------
\* Properties of the coordinate conversion
\* ------------------------------------------------------------------------
\* C15: for every connector and every point a model can emit, 1000 and
\* values outside 0..1000 included, the pixel the point converts to lies on
\* the screen: 0 <= x < W and 0 <= y < H
C15_PixelsOnScreen ==
  p_fn # "" =>
    /\ 0 <= p_out[1] /\ p_out[1] < p_rsp.device_size[1]
    /\ 0 <= p_out[2] /\ p_out[2] < p_rsp.device_size[2]

\* ------------------------------------------------------------------------
\* Properties of the grid
\* ------------------------------------------------------------------------
\* the divisors of a screen dimension that the cell size may take
DivisorsInRange(n) == { d \in MIN_UNIT..MAX_UNIT : n % d = 0 }

\* the cell sizes a computed grid reports, with the dimension each one cuts
GridUnits == { <<p_out.unit_width, p_rsp.width>>, <<p_out.unit_height, p_rsp.height>> }

\* C16 as stated: the cell width (height) is the largest divisor of the screen
\* width (height) within 120..180, and the default size when there is none
C16_LargestDivisor ==
  p_fn # "" =>
    \A u \in GridUnits :
      IF DivisorsInRange(u[2]) = {} THEN u[1] = DEFAULT_UNIT
      ELSE /\ u[1] \in DivisorsInRange(u[2])
           /\ \A d \in DivisorsInRange(u[2]) : d <= u[1]

\* C16 as the code has it: the cell width (height) is the smallest divisor of
\* the screen width (height) within 120..180, and 120 when there is none
C16_SmallestDivisor ==
  p_fn # "" =>
    \A u \in GridUnits :
      IF DivisorsInRange(u[2]) = {} THEN u[1] = DEFAULT_UNIT
      ELSE /\ u[1] \in DivisorsInRange(u[2])
           /\ \A d \in DivisorsInRange(u[2]) : u[1] <= d

\* a grid was drawn on a screen whose height has several divisors in range,
\* none of them the default, and whose width has more than one too
C16_Witness ==
  /\ p_fn = "draw_grid"
  /\ p_rsp.width = 360 /\ p_rsp.height = 540
  /\ p_out.unit_width = 120 /\ p_out.unit_height = 135
  /\ 180 \in DivisorsInRange(p_rsp.height)

\* C17: for every screen size, every area number in 1..rows*cols and every
\* sub-position, the pixel calculate_grid_coordinates returns lies inside the
\* one cell draw_grid labelled with that number, and inside the screen
C17_PixelInLabelledCell ==
  p_fn = "calculate_grid_coordinates" =>
    LET labelled == { c \in draw_grid(p_rsp.width, p_rsp.height).cells : c.label = p_rsp.area }
    IN  /\ Cardinality(labelled) = 1
        /\ \A c \in labelled :
             /\ c.left <= p_out.x /\ p_out.x < c.right
             /\ c.top <= p_out.y /\ p_out.y < c.bottom
        /\ 0 <= p_out.x /\ p_out.x < p_rsp.width
        /\ 0 <= p_out.y /\ p_out.y < p_rsp.height

\* the bottom-right of area 5, in the second row of a 3-column grid on a screen
\* whose width has no divisor in range
C17_Witness ==
  /\ p_fn = "calculate_grid_coordinates"
  /\ p_rsp.width = 427 /\ p_rsp.height = 250
  /\ p_rsp.area = 5 /\ p_rsp.subarea = "bottom-right"
  /\ p_out.x = 216 /\ p_out.y = 225

\* ------------------------------------------------------------------------
\* Properties of run_gelab_task
\* ------------------------------------------------------------------------
\* C25: in run_gelab_task a round whose reply parses to the ERROR action
\* makes the run return a failure: the loop does not go on to another round
C25_ErrorActionAborts ==
  t_result.action_type = "ERROR" => (t_pc = "returned" /\ ~t_return.success)

\* ------------------------------------------------------------------------
\* Properties of the engine wrapper and of the script as a process
\* ------------------------------------------------------------------------
\* C30: once LegacyEngineWrapper.execute_task has returned, whatever the
\* return path, the status is not RUNNING
C30_NotRunningAfterReturn ==
  w_pc = "returned" => w_status # "RUNNING"

\* C26: when the script has recorded that it started an emulator and a
\* termination signal ends it, that emulator is no longer running once the
\* process has exited; an emulator the script did not start is never handed
\* to stop_emulator
C26_OwnEmulatorStoppedOnSignal ==
  /\ (s_pc = "exited" /\ s_flag /\ s_signal) => EMU_OWN \notin s_running
  /\ EMU_OTHER \notin s_stopped

\* ------------------------------------------------------------------------
\* Properties of the GELab engine
\* ------------------------------------------------------------------------
\* C21: once SIGINT or SIGTERM has been received during a run of the GELab
\* engine, no further round is started
C21_NoRoundAfterShutdownRequest ==
  e_after = 0

================================================================================
